---- MODULE Spec2Model ----
(***************************************************************************)
(* Model of the radar core of nick-leland/radar:                           *)
(*   - FileOutputManager (src/unnamed/part_004): temp-write + rename       *)
(*     output pipeline with retry/backoff and write coalescing;            *)
(*   - EntityTracker (src/lib/EntityTracker.js) and Entity                 *)
(*     (src/unnamed/part_003): entity map, spatial grid, distance cache.   *)
(*                                                                         *)
(* JavaScript runs each callback to completion, so every action below is   *)
(* one synchronous stretch of code between two suspension points; the      *)
(* libuv thread pool performs the file operations themselves, which are    *)
(* therefore actions of their own, interleaved with the callbacks.         *)
(***************************************************************************)
EXTENDS Integers, Sequences, FiniteSets, TLC

\* ------------------------------------------------------------------ bounds
\* Number of writeRadarData calls made in one behaviour.
MaxRequests == 2

\* ------------------------------------------------- FileOutputManager state
VARIABLES
    isWriting,          \* this.isWriting
    pendingData,        \* this.pendingData: a snapshot id, or Null
    retryCount,         \* this.retryCount
    performanceMetrics, \* this.performanceMetrics (the four counters)
    chain,              \* per call: the performAtomicWrite/retry chain it awaits
    results,            \* per call: what its promise resolved to
    fsTemp,             \* directory entry of tempPath: inode id, or 0 when absent
    fsTarget,           \* directory entry of outputPath: inode id, or 0 when absent
    inodes,             \* file contents by inode id
    reqCount,           \* number of writeRadarData calls made so far
    lastSnapshot,       \* history: the snapshot of the latest writeRadarData call
    flushPc,            \* position of the flush() call
    attempts,           \* history: write attempts started per snapshot
    dropped             \* history: snapshots dropped at the retry ceiling

wvars == <<isWriting, pendingData, retryCount, performanceMetrics, chain,
           results, fsTemp, fsTarget, inodes, reqCount, lastSnapshot, flushPc,
           attempts, dropped>>

Null == 0

\* this.maxRetries = 3
maxRetries == 3

\* Call ids: 1..MaxRequests are the writeRadarData calls (call k carries
\* snapshot k), FlushCaller is the flush() call.
FlushCaller == 0
Callers == 0..MaxRequests
Snapshots == 1..MaxRequests

\* One inode each for temp and target, and one per descriptor a chain may
\* still hold on a file that was unlinked or renamed under it.
InodeIds == 1..(MaxRequests + 3)

\* JSON.stringify(snapshot): a single line whose length depends on the
\* snapshot.  A file is a sequence of blocks; block i of the serialization of
\* snapshot s is <<s, i>>.
SerLen(s) == 1 + (s % 2)
Serialize(s) == [i \in 1..SerLen(s) |-> <<s, i>>]

\* write(fd, data) at offset 0 of a file that already holds old:
\* the blocks of data replace the first Len(data) blocks, the rest stay.
Overwrite(old, data) ==
    IF Len(old) > Len(data)
        THEN data \o SubSeq(old, Len(data) + 1, Len(old))
        ELSE data

\* A chain also remembers the snapshot its latest attempt serialized, the
\* number of retries it has armed and the delay of the timer it waits for.
IdleChain ==
    [phase |-> "none", data |-> <<>>, fd |-> 0, snapshot |-> 0,
     retries |-> 0, delay |-> 0]

\* this.retryDelay = 10 (ms)
retryDelay == 10

\* Math.pow(2, n)
Pow2(n) == IF n <= 0 THEN 1 ELSE IF n = 1 THEN 2 ELSE IF n = 2 THEN 4 ELSE 8

\* Inodes no directory entry and no open descriptor refers to are released.
Referenced(temp, target, ch) ==
    {temp, target} \cup {ch[c].fd : c \in Callers}
Release(ino, temp, target, ch) ==
    [n \in InodeIds |->
        IF n \in Referenced(temp, target, ch) THEN ino[n] ELSE <<>>]
FreshInode(temp, target, ch) ==
    CHOOSE n \in InodeIds :
        /\ n \notin Referenced(temp, target, ch)
        /\ \A m \in InodeIds :
              m \notin Referenced(temp, target, ch) => n <= m

InitWriter ==
    /\ isWriting = FALSE
    /\ pendingData = Null
    /\ retryCount = 0
    /\ performanceMetrics = [totalWrites |-> 0, successfulWrites |-> 0,
                             failedWrites |-> 0, retryOperations |-> 0]
    /\ chain = [c \in Callers |-> IdleChain]
    /\ results = [c \in Callers |-> "none"]
    /\ fsTemp = 0
    /\ fsTarget = 0
    /\ inodes = [n \in InodeIds |-> <<>>]
    /\ reqCount = 0
    /\ lastSnapshot = Null
    /\ flushPc = "idle"
    /\ attempts = [s \in Snapshots |-> 0]
    /\ dropped = {}

\* performAtomicWrite up to its first suspension (fs.writeFile issued), run
\* on behalf of call c with the pending snapshot pd.
performAtomicWrite(c, pd) ==
    IF pd = Null
    THEN /\ results' = [results EXCEPT ![c] = "false"]
         /\ chain' = [chain EXCEPT ![c] = [IdleChain EXCEPT !.phase = "done"]]
         /\ UNCHANGED <<isWriting, performanceMetrics, attempts>>
    ELSE /\ isWriting' = TRUE
         /\ performanceMetrics' =
               [performanceMetrics EXCEPT !.totalWrites = @ + 1]
         /\ chain' = [chain EXCEPT
               ![c] = [chain[c] EXCEPT !.phase = "open",
                          !.data = Serialize(pd), !.fd = 0, !.snapshot = pd,
                          !.delay = 0]]
         /\ attempts' = [attempts EXCEPT ![pd] = @ + 1]
         /\ UNCHANGED results

\* writeRadarData(radarSnapshot) with a snapshot: call k carries snapshot k.
writeRadarData ==
    /\ reqCount < MaxRequests
    /\ flushPc = "idle"
    /\ LET k == reqCount + 1 IN
        /\ reqCount' = k
        /\ lastSnapshot' = k
        /\ pendingData' = k
        /\ IF isWriting
           THEN /\ results' = [results EXCEPT ![k] = "true"]
                /\ chain' = [chain EXCEPT
                      ![k] = [IdleChain EXCEPT !.phase = "done"]]
                /\ UNCHANGED <<isWriting, performanceMetrics, attempts>>
           ELSE performAtomicWrite(k, k)
    /\ UNCHANGED <<retryCount, fsTemp, fsTarget, inodes, flushPc, dropped>>

\* writeRadarData(null): "No radar snapshot provided", resolves to false.
writeRadarDataEmpty ==
    /\ reqCount < MaxRequests
    /\ flushPc = "idle"
    /\ LET k == reqCount + 1 IN
        /\ reqCount' = k
        /\ results' = [results EXCEPT ![k] = "false"]
        /\ chain' = [chain EXCEPT ![k] = [IdleChain EXCEPT !.phase = "done"]]
    /\ UNCHANGED <<isWriting, pendingData, retryCount, performanceMetrics,
                   fsTemp, fsTarget, inodes, lastSnapshot, flushPc, attempts,
                   dropped>>

\* fs.writeFile, step 1 (thread pool): open(tempPath, 'w') creates the file
\* or truncates the existing one.
writeToTempFileOpen(c) ==
    /\ chain[c].phase = "open"
    /\ LET n == IF fsTemp = 0 THEN FreshInode(fsTemp, fsTarget, chain)
                ELSE fsTemp
           ch == [chain EXCEPT ![c].phase = "write", ![c].fd = n]
       IN /\ fsTemp' = n
          /\ chain' = ch
          /\ inodes' = Release([inodes EXCEPT ![n] = <<>>], n, fsTarget, ch)
    /\ UNCHANGED <<isWriting, pendingData, retryCount, performanceMetrics,
                   results, fsTarget, reqCount, lastSnapshot, flushPc, attempts, dropped>>

\* fs.writeFile, step 2 (thread pool): write the data through the descriptor
\* and close it.
writeToTempFileWrite(c) ==
    /\ chain[c].phase = "write"
    /\ LET n == chain[c].fd
           ch == [chain EXCEPT ![c] = [chain[c] EXCEPT !.phase = "written",
                                          !.data = <<>>, !.fd = 0]]
       IN /\ chain' = ch
          /\ inodes' = Release(
                [inodes EXCEPT ![n] = Overwrite(inodes[n], chain[c].data)],
                fsTemp, fsTarget, ch)
    /\ UNCHANGED <<isWriting, pendingData, retryCount, performanceMetrics,
                   results, fsTemp, fsTarget, reqCount, lastSnapshot, flushPc, attempts,
                   dropped>>

\* Continuation of performAtomicWrite after writeToTempFile resolved:
\* atomicRename issues fs.rename.
atomicRenameIssue(c) ==
    /\ chain[c].phase = "written"
    /\ chain' = [chain EXCEPT ![c].phase = "rename"]
    /\ UNCHANGED <<isWriting, pendingData, retryCount, performanceMetrics,
                   results, fsTemp, fsTarget, inodes, reqCount, lastSnapshot, flushPc,
                   attempts, dropped>>

\* fs.rename(tempPath, outputPath) (thread pool): one directory update.
atomicRename(c) ==
    /\ chain[c].phase = "rename"
    /\ fsTemp # 0
    /\ LET ch == [chain EXCEPT ![c].phase = "renamed"]
       IN /\ chain' = ch
          /\ fsTarget' = fsTemp
          /\ fsTemp' = 0
          /\ inodes' = Release(inodes, 0, fsTemp, ch)
    /\ UNCHANGED <<isWriting, pendingData, retryCount, performanceMetrics,
                   results, reqCount, lastSnapshot, flushPc, attempts, dropped>>

\* A file operation fails (open, write or rename reports an error; rename
\* always does when tempPath is absent).  The descriptor, if any, is closed.
ioFailure(c) ==
    /\ chain[c].phase \in {"open", "write", "rename"}
    /\ LET ch == [chain EXCEPT ![c] = [chain[c] EXCEPT !.phase = "failed",
                                          !.data = <<>>, !.fd = 0]]
       IN /\ chain' = ch
          /\ inodes' = Release(inodes, fsTemp, fsTarget, ch)
    /\ UNCHANGED <<isWriting, pendingData, retryCount, performanceMetrics,
                   results, fsTemp, fsTarget, reqCount, lastSnapshot, flushPc, attempts,
                   dropped>>

\* updatePerformanceMetrics(duration, success): the two counters.
updatePerformanceMetrics(m, success) ==
    IF success THEN [m EXCEPT !.successfulWrites = @ + 1]
               ELSE [m EXCEPT !.failedWrites = @ + 1]

\* Mutant: the success path returns without `this.isWriting = false`.
performAtomicWriteSuccessStillWriting(c) ==
    /\ chain[c].phase = "renamed"
    /\ performanceMetrics' = updatePerformanceMetrics(performanceMetrics, TRUE)
    /\ retryCount' = 0
    /\ pendingData' = Null
    /\ isWriting' = isWriting
    /\ results' = [results EXCEPT ![c] = "true"]
    /\ chain' = [chain EXCEPT ![c] = [IdleChain EXCEPT !.phase = "done"]]
    /\ UNCHANGED <<fsTemp, fsTarget, inodes, reqCount, lastSnapshot, flushPc, attempts,
                   dropped>>

\* Continuation of performAtomicWrite after atomicRename resolved.
performAtomicWriteSuccess(c) ==
    /\ chain[c].phase = "renamed"
    /\ performanceMetrics' = updatePerformanceMetrics(performanceMetrics, TRUE)
    /\ retryCount' = 0
    /\ pendingData' = Null
    /\ isWriting' = FALSE
    /\ results' = [results EXCEPT ![c] = "true"]
    /\ chain' = [chain EXCEPT ![c] = [IdleChain EXCEPT !.phase = "done"]]
    /\ UNCHANGED <<fsTemp, fsTarget, inodes, reqCount, lastSnapshot, flushPc, attempts,
                   dropped>>

\* The catch block of performAtomicWrite followed by handleWriteError, which
\* runs to its end without suspending: either it arms the retry timer or it
\* drops the pending snapshot.
handleWriteError(c) ==
    /\ chain[c].phase = "failed"
    /\ isWriting' = FALSE
    /\ fsTemp' = 0
    /\ inodes' = Release(inodes, 0, fsTarget, chain)
    /\ LET m == updatePerformanceMetrics(performanceMetrics, FALSE) IN
       IF retryCount < maxRetries
       THEN /\ retryCount' = retryCount + 1
            /\ performanceMetrics' = [m EXCEPT !.retryOperations = @ + 1]
            /\ chain' = [chain EXCEPT ![c].phase = "timer",
                                      ![c].retries = @ + 1,
                                      ![c].delay =
                                          retryDelay * Pow2(retryCount)]
            /\ UNCHANGED <<pendingData, results, dropped>>
       ELSE /\ performanceMetrics' = [m EXCEPT !.failedWrites = @ + 1]
            /\ retryCount' = 0
            /\ dropped' = dropped \cup ({pendingData} \ {Null})
            /\ pendingData' = Null
            /\ results' = [results EXCEPT ![c] = "false"]
            /\ chain' = [chain EXCEPT ![c] = [IdleChain EXCEPT !.phase = "done"]]
    /\ UNCHANGED <<fsTarget, reqCount, lastSnapshot, flushPc, attempts>>

\* The retry timer set by handleWriteError fires: performAtomicWrite again.
retryTimer(c) ==
    /\ chain[c].phase = "timer"
    /\ performAtomicWrite(c, pendingData)
    /\ UNCHANGED <<pendingData, retryCount, fsTemp, fsTarget, inodes,
                   reqCount, lastSnapshot, flushPc, dropped>>

\* flush(), first statement: a pending snapshot with no write in flight is
\* written, and flush awaits that write.
flush ==
    /\ flushPc = "idle"
    /\ IF pendingData # Null /\ ~isWriting
       THEN /\ performAtomicWrite(FlushCaller, pendingData)
            /\ flushPc' = "await"
       ELSE /\ flushPc' = "poll"
            /\ UNCHANGED <<isWriting, performanceMetrics, chain, results,
                           attempts>>
    /\ UNCHANGED <<pendingData, retryCount, fsTemp, fsTarget, inodes,
                   reqCount, lastSnapshot, dropped>>

\* flush(): the awaited performAtomicWrite has resolved.
flushResume ==
    /\ flushPc = "await"
    /\ chain[FlushCaller].phase = "done"
    /\ flushPc' = "poll"
    /\ UNCHANGED <<isWriting, pendingData, retryCount, performanceMetrics,
                   chain, results, fsTemp, fsTarget, inodes, reqCount, lastSnapshot,
                   attempts, dropped>>

\* flush(): the polling loop finds isWriting false and flush returns.
flushReturn ==
    /\ flushPc = "poll"
    /\ ~isWriting
    /\ flushPc' = "returned"
    /\ UNCHANGED <<isWriting, pendingData, retryCount, performanceMetrics,
                   chain, results, fsTemp, fsTarget, inodes, reqCount, lastSnapshot,
                   attempts, dropped>>

NextWriter ==
    \/ writeRadarData
    \/ writeRadarDataEmpty
    \/ \E c \in Callers : writeToTempFileOpen(c)
    \/ \E c \in Callers : writeToTempFileWrite(c)
    \/ \E c \in Callers : atomicRenameIssue(c)
    \/ \E c \in Callers : atomicRename(c)
    \/ \E c \in Callers : ioFailure(c)
    \/ \E c \in Callers : performAtomicWriteSuccess(c)
    \/ \E c \in Callers : handleWriteError(c)
    \/ \E c \in Callers : retryTimer(c)
    \/ flush
    \/ flushResume
    \/ flushReturn

\* ----------------------------------------------------- EntityTracker state
VARIABLES
    entities,           \* this.entities: the Map, as records in insertion order
    spatialGrid,        \* this.spatialGrid: grid key -> ids in insertion order
    distanceCache,      \* this.distanceCache: cache key -> distance
    playerPosition,     \* this.playerPosition, NoPosition when null
    lastPlayerPosHash,  \* this.lastPlayerPosHash, NoPosition when null
    radarRadius,        \* this.radarRadius, in meters
    maxEntities,        \* this.maxEntities
    now,                \* Date.now()
    trackerMetrics      \* this.performanceMetrics: spatialQueries and
                        \* distanceCalculations

tvars == <<entities, spatialGrid, distanceCache, playerPosition,
           lastPlayerPosHash, radarRadius, maxEntities, now, trackerMetrics>>

\* State of the host around the store and the pipeline.
VARIABLES
    lastCleanup,        \* EntityTracker.lastCleanup
    returned,           \* what the latest call made by an observing caller
                        \* returned: [op, arg, value]
    interceptorPosition,\* PacketInterceptor.playerPosition
    writeTimer,         \* FileOutputManager.writeTimer: Null, or the handle
                        \* setInterval returned
    destroyed,          \* history: FileOutputManager.destroy() has returned
    config,             \* TeraRadarMod.config: radarRadius
    liveIntervals,      \* the handles of the intervals the runtime will fire
    updateInterval      \* FileOutputManager.updateInterval

pvars == <<liveIntervals, updateInterval>>

xvars == <<lastCleanup, returned, interceptorPosition, writeTimer, destroyed,
           config, pvars>>

vars == <<wvars, tvars, xvars>>

\* Positions are <<x, y, z>> in ticks of 1/TicksPerUnit world unit, so that
\* hashPosition's rounding to 0.1 unit is not the identity.  A position
\* object lacking its z component is the pair <<x, y>>; null is NoPosition.
TicksPerUnit == 20
NoPosition == <<>>
IsWellFormed(p) == Len(p) = 3

\* Entity.TERA_UNITS_PER_METER = 16.49, times 100.
TERA_UNITS_PER_METER_X100 == 1649

\* Mutant: the radius in meters taken for world units (no conversion).
metersTakenForTeraUnits(meters) == meters * TicksPerUnit

\* Entity.metersToTeraUnits(meters), in ticks.
metersToTeraUnits(meters) ==
    (meters * TERA_UNITS_PER_METER_X100 * TicksPerUnit) \div 100

\* this.radarRadiusTeraUnits, in ticks.
radarRadiusTeraUnits(radius) == metersToTeraUnits(radius)

\* Twice this.gridSize (the half of the radius need not be a whole tick):
\* gridSize = max(radarRadiusTeraUnits / 2, metersToTeraUnits(25)).
gridSizeTwice(radius) ==
    IF radarRadiusTeraUnits(radius) > 2 * metersToTeraUnits(25)
        THEN radarRadiusTeraUnits(radius)
        ELSE 2 * metersToTeraUnits(25)

\* Math.floor(coordinate / this.gridSize)
GridCoord(v, radius) == (2 * v) \div gridSizeTwice(radius)

\* getGridKey(position): one grid coordinate per component the position has
\* (a missing component gives NaN, which no other key carries).
getGridKey(position, radius) ==
    [i \in 1..Len(position) |-> GridCoord(position[i], radius)]

\* hashPosition(position): Math.round(v * 10) / 10 per component, as the
\* number of tenths; Math.round rounds halves up.
RoundTenths(v) == (v + 1) \div 2
hashPosition(position) == [i \in 1..3 |-> RoundTenths(position[i])]

\* dx*dx + dy*dy + dz*dz: the square of calculateRawDistanceFrom.  A distance
\* is represented by a record of its unit and the square of its raw value:
\* "tera" is the raw distance, "m" the raw distance divided by 16.49.
SquaredDistance(p, q) ==
    (p[1] - q[1]) * (p[1] - q[1]) + (p[2] - q[2]) * (p[2] - q[2])
        + (p[3] - q[3]) * (p[3] - q[3])
Infinity == 2147483647

\* ---- the entity Map
Ids(ents) == {ents[i].gameId : i \in 1..Len(ents)}
HasEntity(ents, gameId) == gameId \in Ids(ents)
IndexOf(ents, gameId) == CHOOSE i \in 1..Len(ents) : ents[i].gameId = gameId
GetEntity(ents, gameId) == ents[IndexOf(ents, gameId)]
DeleteEntity(ents, gameId) ==
    SelectSeq(ents, LAMBDA e : e.gameId # gameId)

\* ---- insertion-ordered Set of ids
SeqRange(q) == {q[i] : i \in 1..Len(q)}
SetAdd(q, x) == IF x \in SeqRange(q) THEN q ELSE Append(q, x)
SetDelete(q, x) == SelectSeq(q, LAMBDA y : y # x)

\* addToSpatialIndex(gameId, position)
addToSpatialIndex(grid, gameId, position, radius) ==
    LET gridKey == getGridKey(position, radius)
        cell == IF gridKey \in DOMAIN grid THEN grid[gridKey] ELSE <<>>
    IN [k \in (DOMAIN grid) \cup {gridKey} |->
            IF k = gridKey THEN SetAdd(cell, gameId) ELSE grid[k]]

\* removeFromSpatialIndex(gameId, position)
removeFromSpatialIndex(grid, gameId, position, radius) ==
    LET gridKey == getGridKey(position, radius) IN
    IF gridKey \notin DOMAIN grid THEN grid
    ELSE LET cell == SetDelete(grid[gridKey], gameId) IN
         IF cell = <<>>
            THEN [k \in (DOMAIN grid) \ {gridKey} |-> grid[k]]
            ELSE [grid EXCEPT ![gridKey] = cell]

\* updateSpatialIndex(gameId, oldPosition, newPosition)
updateSpatialIndex(grid, gameId, oldPosition, newPosition, radius) ==
    LET removed == IF oldPosition # NoPosition
                      THEN removeFromSpatialIndex(grid, gameId, oldPosition,
                                                  radius)
                      ELSE grid
    IN IF newPosition # NoPosition
          THEN addToSpatialIndex(removed, gameId, newPosition, radius)
          ELSE removed

\* Cache keys: `${gameId}_${hash}` is [kind |-> "m"], `raw_${gameId}_${hash}`
\* is [kind |-> "raw"].  key.startsWith(`${gameId}_`): a raw key starts with
\* "raw_" and a numeric id is followed by "_" only in the key of that id.
KeyStartsWith(key, gameId) == key.kind = "m" /\ key.id = gameId

\* invalidateDistanceCache(gameId)
invalidateDistanceCache(cache, gameId) ==
    [k \in {key \in DOMAIN cache : ~KeyStartsWith(key, gameId)} |-> cache[k]]

\* Entity.updatePosition(newPosition): a malformed position is ignored.
updatePosition(entity, newPosition, time) ==
    IF IsWellFormed(newPosition)
        THEN [entity EXCEPT !.position = newPosition, !.known = TRUE,
                            !.lastUpdate = time]
        ELSE entity

\* JavaScript null and undefined where a number may stand.
JsNull == -1
JsUndefined == -2
\* typeof v === 'number'
IsNumber(v) == v >= 0
\* An event without identity: !gameId && gameId !== 0.
NoId == JsUndefined

\* The entityData of an upsert: identity, position and attributes (a falsy
\* string is "", a falsy level or templateId is 0) and the signals the
\* classification reads.
BlankData(gameId) ==
    [gameId |-> gameId, position |-> NoPosition, name |-> "",
     hp |-> JsUndefined, maxHp |-> JsUndefined, level |-> 0, class |-> "",
     playerId |-> 0, accountId |-> 0, isPlayer |-> FALSE, templateId |-> 0,
     npcId |-> 0, isNPC |-> FALSE, monsterId |-> 0, isMonster |-> FALSE,
     relation |-> JsUndefined]

EntityData(gameId, position) ==
    [BlankData(gameId) EXCEPT !.position = position]

\* Entity.determineType(rawData)
determineType(rawData) ==
    IF rawData.playerId # 0 \/ rawData.accountId # 0 \/ rawData.isPlayer
        THEN "Player"
    ELSE IF rawData.templateId >= 1000 /\ rawData.templateId <= 9999
        THEN "NPC"
    ELSE IF rawData.templateId >= 10000
        THEN "Monster"
    ELSE IF rawData.npcId # 0 \/ rawData.isNPC
        THEN "NPC"
    ELSE "Monster"

\* Mutant: neutral (relation 1) counted as friendly.
determineFriendlyStatusFromNeutral(relation) ==
    IF relation = JsUndefined \/ relation = JsNull THEN FALSE
    ELSE relation >= 1

\* Entity.determineFriendlyStatus(relation)
determineFriendlyStatus(relation) ==
    IF relation = JsUndefined \/ relation = JsNull THEN FALSE
    ELSE relation >= 2

\* v || null for a numeric attribute
OrNull(v) == IF v > 0 THEN v ELSE JsNull

\* new Entity(gameId, rawData): position {x: 0, y: 0, z: 0}.  known is a
\* history field: whether a position was ever recorded for the entity.
NewEntityFrom(rawData, time) ==
    [gameId |-> rawData.gameId, position |-> <<0, 0, 0>>, known |-> FALSE,
     lastUpdate |-> time,
     name |-> IF rawData.name # "" THEN rawData.name ELSE "Unknown",
     type |-> determineType(rawData),
     isFriendly |-> determineFriendlyStatus(rawData.relation),
     hp |-> OrNull(rawData.hp), maxHp |-> OrNull(rawData.maxHp),
     level |-> OrNull(rawData.level),
     class |-> rawData.class]

NewEntity(gameId, time) == NewEntityFrom(BlankData(gameId), time)

\* Entity.updateHealth(hp, maxHp)
updateHealth(entity, hp, maxHp, time) ==
    [entity EXCEPT !.hp = IF IsNumber(hp) THEN hp ELSE @,
                   !.maxHp = IF IsNumber(maxHp) THEN maxHp ELSE @,
                   !.lastUpdate = time]

\* Mutant: the update branch rebuilds the attributes from the patch as the
\* constructor does.
patchAttributesAsNew(entity, entityData, time) ==
    [entity EXCEPT
        !.name = IF entityData.name # "" THEN entityData.name ELSE "Unknown",
        !.type = determineType(entityData),
        !.isFriendly = determineFriendlyStatus(entityData.relation),
        !.hp = OrNull(entityData.hp), !.maxHp = OrNull(entityData.maxHp),
        !.level = OrNull(entityData.level), !.class = entityData.class]

\* The update branch of addEntity after the position: hp/maxHp, name,
\* level, class.
patchAttributes(entity, entityData, time) ==
    LET e1 == IF entityData.hp # JsUndefined \/ entityData.maxHp # JsUndefined
                 THEN updateHealth(entity, entityData.hp, entityData.maxHp,
                                   time)
                 ELSE entity
    IN [e1 EXCEPT !.name = IF entityData.name # "" THEN entityData.name
                            ELSE @,
                  !.level = IF entityData.level > 0 THEN entityData.level
                             ELSE @,
                  !.class = IF entityData.class # "" THEN entityData.class
                             ELSE @]

\* The store is the triple the mutating operations work on.
Store(ents, grid, cache) ==
    [entities |-> ents, spatialGrid |-> grid, distanceCache |-> cache]

\* removeEntity(gameId)
removeEntityIn(st, gameId, radius) ==
    Store(DeleteEntity(st.entities, gameId),
          IF HasEntity(st.entities, gameId)
             THEN removeFromSpatialIndex(st.spatialGrid, gameId,
                      GetEntity(st.entities, gameId).position, radius)
             ELSE st.spatialGrid,
          invalidateDistanceCache(st.distanceCache, gameId))

\* Mutant: the comparator reversed (b - a), newest entities first.
SortRankNewestFirst(ents, i) ==
    Cardinality({j \in 1..Len(ents) :
        \/ ents[j].lastUpdate > ents[i].lastUpdate
        \/ (ents[j].lastUpdate = ents[i].lastUpdate /\ j < i)})

\* entities.sort((a, b) => a[1].lastUpdate - b[1].lastUpdate): the sort is
\* stable, so equal lastUpdate keeps Map order.  Rank of entry i = number of
\* entries sorted before it.
SortRank(ents, i) ==
    Cardinality({j \in 1..Len(ents) :
        \/ ents[j].lastUpdate < ents[i].lastUpdate
        \/ (ents[j].lastUpdate = ents[i].lastUpdate /\ j < i)})

\* Math.floor(this.maxEntities * 0.1)
entitiesToRemove(limit) == limit \div 10

\* The ids performEmergencyCleanup removes: the first entitiesToRemove
\* entries of the sorted array.
CleanupVictims(ents, limit) ==
    {ents[i].gameId : i \in {j \in 1..Len(ents) :
                                SortRank(ents, j) < entitiesToRemove(limit)}}

RECURSIVE RemoveAll(_, _, _)
RemoveAll(st, ids, radius) ==
    IF ids = {} THEN st
    ELSE LET gameId == CHOOSE x \in ids : TRUE
         IN RemoveAll(removeEntityIn(st, gameId, radius), ids \ {gameId},
                      radius)

\* performEmergencyCleanup()
performEmergencyCleanup(st, limit, radius) ==
    RemoveAll(st, CleanupVictims(st.entities, limit), radius)

\* Mutant: the limit check without `&& !this.entities.has(gameId)`.
atEntityLimitAnyId(ents, gameId, limit) == Len(ents) >= limit

\* this.entities.size >= this.maxEntities && !this.entities.has(gameId)
atEntityLimit(ents, gameId, limit) ==
    Len(ents) >= limit /\ ~HasEntity(ents, gameId)

\* addEntity(entityData) past the check of the gameId
addEntityKnownId(st0, entityData, limit, radius, time) ==
    LET gameId == entityData.gameId
        position == entityData.position
        st == IF atEntityLimit(st0.entities, gameId, limit)
                 THEN performEmergencyCleanup(st0, limit, radius)
                 ELSE st0
        ents == st.entities
    IN IF HasEntity(ents, gameId)
       THEN LET i == IndexOf(ents, gameId)
                oldPosition == ents[i].position
            IN IF position # NoPosition
               THEN Store([ents EXCEPT ![i] =
                                patchAttributes(
                                    updatePosition(ents[i], position, time),
                                    entityData, time)],
                          updateSpatialIndex(st.spatialGrid, gameId,
                                             oldPosition, position, radius),
                          invalidateDistanceCache(st.distanceCache, gameId))
               ELSE Store([ents EXCEPT ![i] =
                                patchAttributes(ents[i], entityData, time)],
                          st.spatialGrid,
                          invalidateDistanceCache(st.distanceCache, gameId))
       ELSE IF position # NoPosition
            THEN Store(Append(ents,
                              updatePosition(NewEntityFrom(entityData, time),
                                             position, time)),
                       addToSpatialIndex(st.spatialGrid, gameId, position,
                                         radius),
                       invalidateDistanceCache(st.distanceCache, gameId))
            ELSE Store(Append(ents, NewEntityFrom(entityData, time)),
                       st.spatialGrid,
                       invalidateDistanceCache(st.distanceCache, gameId))

\* Mutant: the gameId is not checked.
addEntityWithoutIdCheck(st0, entityData, limit, radius, time) ==
    addEntityKnownId(st0, entityData, limit, radius, time)

\* addEntity(entityData): an entityData without gameId is rejected first.
addEntityDataIn(st0, entityData, limit, radius, time) ==
    IF entityData.gameId = NoId THEN st0
    ELSE addEntityKnownId(st0, entityData, limit, radius, time)

\* What addEntity returns: the entity (by its id), or null.
addEntityReturn(entityData) ==
    IF entityData.gameId = NoId THEN JsNull ELSE entityData.gameId

\* addEntity(entityData) for entityData = {gameId, position}
addEntityIn(st0, gameId, position, limit, radius, time) ==
    addEntityDataIn(st0, EntityData(gameId, position), limit, radius, time)

\* updateEntityHealth(gameId, hp, maxHp)
updateEntityHealthIn(ents, gameId, hp, maxHp, time) ==
    IF HasEntity(ents, gameId)
        THEN [ents EXCEPT ![IndexOf(ents, gameId)] =
                    updateHealth(ents[IndexOf(ents, gameId)], hp, maxHp,
                                 time)]
        ELSE ents

\* updateEntityPosition(gameId, position) on a tracked entity
updateEntityPositionIn(st, gameId, position, radius, time) ==
    LET i == IndexOf(st.entities, gameId)
        oldPosition == st.entities[i].position
    IN Store([st.entities EXCEPT ![i] =
                    updatePosition(st.entities[i], position, time)],
             updateSpatialIndex(st.spatialGrid, gameId, oldPosition, position,
                                radius),
             invalidateDistanceCache(st.distanceCache, gameId))

\* ---- getEntitiesInRadius

\* Math.ceil(radius / this.gridSize)
gridRadius(radius) ==
    (2 * radarRadiusTeraUnits(radius) + gridSizeTwice(radius) - 1)
        \div gridSizeTwice(radius)

\* The grid key visited at step i of the three nested loops of
\* getSpatialCandidates (dx outermost, dz innermost).
LoopKey(center, radius, i) ==
    LET n == 2 * gridRadius(radius) + 1
        g == gridRadius(radius)
    IN <<GridCoord(center[1], radius) - g + (i \div (n * n)),
         GridCoord(center[2], radius) - g + ((i \div n) % n),
         GridCoord(center[3], radius) - g + (i % n)>>

RECURSIVE AddAll(_, _, _)
AddAll(acc, cell, j) ==
    IF j > Len(cell) THEN acc ELSE AddAll(SetAdd(acc, cell[j]), cell, j + 1)

RECURSIVE CollectCandidates(_, _, _, _, _)
CollectCandidates(grid, center, radius, i, acc) ==
    LET n == 2 * gridRadius(radius) + 1 IN
    IF i >= n * n * n THEN acc
    ELSE LET gridKey == LoopKey(center, radius, i)
             cell == IF gridKey \in DOMAIN grid THEN grid[gridKey] ELSE <<>>
         IN CollectCandidates(grid, center, radius, i + 1,
                              AddAll(acc, cell, 1))

\* getSpatialCandidates(center, radius): candidate ids in insertion order.
getSpatialCandidates(grid, center, radius) ==
    CollectCandidates(grid, center, radius, 0, <<>>)

CacheKey(kind, gameId, hash) == [kind |-> kind, id |-> gameId, hash |-> hash]

\* getCachedRawDistance / getCachedDistance: the value returned for gameId,
\* the cached one when the key is present.  Both units are represented by
\* the square of the raw distance.
getCachedValue(ents, cache, kind, gameId, player, hash) ==
    IF ~HasEntity(ents, gameId) THEN Infinity
    ELSE IF CacheKey(kind, gameId, hash) \in DOMAIN cache
         THEN cache[CacheKey(kind, gameId, hash)]
         ELSE SquaredDistance(GetEntity(ents, gameId).position, player)

\* The cache after the lookups of kind for the ids of q.
CacheAfter(ents, cache, kind, q, player, hash) ==
    LET new == {CacheKey(kind, gameId, hash) :
                    gameId \in SeqRange(q) \cap Ids(ents)}
    IN [k \in (DOMAIN cache) \cup new |->
            IF k \in DOMAIN cache THEN cache[k]
            ELSE SquaredDistance(GetEntity(ents, k.id).position, player)]

\* isEntityInRadius(entity, playerPosition, radiusTeraUnits):
\* distanceTeraUnits <= radiusTeraUnits, on the squares.
isEntityInRadius(ents, cache, gameId, player, hash, radius) ==
    getCachedValue(ents, cache, "raw", gameId, player, hash)
        <= radarRadiusTeraUnits(radius) * radarRadiusTeraUnits(radius)

\* entitiesInRadius.sort((a, b) => distA - distB), a stable sort.
SortByDistance(q, ents, cache, player, hash) ==
    LET dist(gameId) == getCachedValue(ents, cache, "m", gameId, player,
                                       hash)
        rank(i) == Cardinality({j \in 1..Len(q) :
                        \/ dist(q[j]) < dist(q[i])
                        \/ (dist(q[j]) = dist(q[i]) /\ j < i)})
    IN [r \in 1..Len(q) |-> q[CHOOSE i \in 1..Len(q) : rank(i) = r - 1]]

\* getEntitiesInRadius() past its guard: the ids returned, the cache it
\* leaves, and what it adds to performanceMetrics (one distance calculation
\* per cache miss).
entitiesInRadiusFrom(ents, grid, cache, player, hash, radius) ==
    LET candidateEntities == getSpatialCandidates(grid, player, radius)
        entitiesInRadius ==
           SelectSeq(candidateEntities, LAMBDA gameId :
               /\ HasEntity(ents, gameId)
               /\ isEntityInRadius(ents, cache, gameId, player, hash,
                                   radius))
        cache1 == CacheAfter(ents, cache, "raw", candidateEntities,
                             player, hash)
        cache2 == IF Len(entitiesInRadius) >= 2
                     THEN CacheAfter(ents, cache1, "m", entitiesInRadius,
                                     player, hash)
                     ELSE cache1
    IN [result |-> SortByDistance(entitiesInRadius, ents, cache1, player,
                                  hash),
        distanceCache |-> cache2,
        spatialQueries |-> 1,
        distanceCalculations |->
           Cardinality(DOMAIN cache2) - Cardinality(DOMAIN cache)]

\* Mutant: a missing observer position defaults to the origin.
getEntitiesInRadiusFromOrigin(ents, grid, cache, player, hash, radius) ==
    entitiesInRadiusFrom(ents, grid, cache,
                         IF player = NoPosition THEN <<0, 0, 0>> ELSE player,
                         hash, radius)

\* getEntitiesInRadius(): empty when no observer position is known.
getEntitiesInRadius(ents, grid, cache, player, hash, radius) ==
    IF player = NoPosition
    THEN [result |-> <<>>, distanceCache |-> cache, spatialQueries |-> 0,
          distanceCalculations |-> 0]
    ELSE entitiesInRadiusFrom(ents, grid, cache, player, hash, radius)

\* ---- inputs
\* Number of distinct game ids the event source produces.
NumEntities == 2
\* Number of counted spatial queries in one behaviour.
MaxQueries == 1
GameIds == 1..NumEntities

\* Raw distances 100, 200 and 500 world units from the origin; PosNearSide
\* is as far as PosNear, in a cell of negative coordinates.
PosNear == <<100 * TicksPerUnit, 0, 0>>
PosMid == <<200 * TicksPerUnit, 0, 0>>
PosFar == <<500 * TicksPerUnit, 0, 0>>
PosNearSide == <<0, -100 * TicksPerUnit, 0>>
EntityPositions == {PosNear, PosFar, PosNearSide}
\* {x, y} without z
MalformedPositions == {<<100 * TicksPerUnit, 0>>}
\* The origin, a point 0.05 units from it (same bucket), and PosNear.
Origin == <<0, 0, 0>>
ObserverPositions == {Origin, <<-1, 0, 0>>, PosNear}
\* new EntityTracker(radarRadius), in meters
RadiusChoices == {0, 10}

\* ---- actions
TrackerStore == Store(entities, spatialGrid, distanceCache)

SetStore(st) ==
    /\ entities' = st.entities
    /\ spatialGrid' = st.spatialGrid
    /\ distanceCache' = st.distanceCache

\* Each operation comes as its effect on the store (...Step), as the call
\* of a caller that discards the result, and further down as the call of a
\* caller that observes it.
addEntityStep(entityData) ==
    /\ SetStore(addEntityDataIn(TrackerStore, entityData, maxEntities,
                                radarRadius, now))
    /\ UNCHANGED <<playerPosition, lastPlayerPosHash, radarRadius,
                   maxEntities, now, trackerMetrics, wvars>>

addEntity(gameId, position) ==
    addEntityStep(EntityData(gameId, position)) /\ UNCHANGED xvars

removeEntityStep(gameId) ==
    /\ SetStore(removeEntityIn(TrackerStore, gameId, radarRadius))
    /\ UNCHANGED <<playerPosition, lastPlayerPosHash, radarRadius,
                   maxEntities, now, trackerMetrics, wvars>>

removeEntity(gameId) == removeEntityStep(gameId) /\ UNCHANGED xvars

updateEntityPosition(gameId, position) ==
    /\ IF HasEntity(entities, gameId)
          THEN SetStore(updateEntityPositionIn(TrackerStore, gameId, position,
                                               radarRadius, now))
          ELSE UNCHANGED <<entities, spatialGrid, distanceCache>>
    /\ UNCHANGED <<playerPosition, lastPlayerPosHash, radarRadius,
                   maxEntities, now, trackerMetrics, wvars, xvars>>

setPlayerPositionStep(position) ==
    /\ IF IsWellFormed(position) /\ lastPlayerPosHash # hashPosition(position)
          THEN /\ playerPosition' = position
               /\ lastPlayerPosHash' = hashPosition(position)
               /\ distanceCache' = << >>
          ELSE UNCHANGED <<playerPosition, lastPlayerPosHash, distanceCache>>
    /\ UNCHANGED <<entities, spatialGrid, radarRadius, maxEntities, now,
                   trackerMetrics, wvars>>

setPlayerPosition(position) ==
    setPlayerPositionStep(position) /\ UNCHANGED xvars

\* What getEntitiesInRadius() returns in the current state.
EntitiesInRadius ==
    getEntitiesInRadius(entities, spatialGrid, distanceCache, playerPosition,
                        lastPlayerPosHash, radarRadius)

\* The effect of one getEntitiesInRadius() on the store.
MetricsAfter(q) ==
    [spatialQueries |-> trackerMetrics.spatialQueries + q.spatialQueries,
     distanceCalculations |->
        trackerMetrics.distanceCalculations + q.distanceCalculations]

runQueryOf(q) ==
    /\ trackerMetrics.spatialQueries + q.spatialQueries <= MaxQueries
    /\ distanceCache' = q.distanceCache
    /\ trackerMetrics' = MetricsAfter(q)
    /\ UNCHANGED <<entities, spatialGrid, playerPosition, lastPlayerPosHash,
                   radarRadius, maxEntities, now>>

runQueryStep == LET q == EntitiesInRadius IN runQueryOf(q)

runQuery == runQueryStep /\ UNCHANGED wvars

queryEntitiesInRadius == runQuery /\ UNCHANGED xvars

\* The host at start: this.lastCleanup = Date.now(), no call observed, no
\* player location seen, no periodic timer.
NoCall == [op |-> "none", arg |-> 0, value |-> 0]

\* constructor(radarRadius = 50), and defaultConfig.radarRadius
DefaultRadius == 50
\* defaultConfig.updateInterval, and constructor(outputPath, updateInterval = 50)
DefaultUpdateInterval == 50

\* ConfigManager.validateAndMergeConfig: a radarRadius that is not a
\* positive number leaves the default.
validateAndMergeConfig(userRadius) ==
    [radarRadius |-> IF userRadius > 0 THEN userRadius ELSE DefaultRadius]

InitHost ==
    /\ lastCleanup = 0
    /\ returned = NoCall
    /\ interceptorPosition = NoPosition
    /\ writeTimer = Null
    /\ liveIntervals = {}
    /\ updateInterval = DefaultUpdateInterval
    /\ destroyed = FALSE
    /\ config = validateAndMergeConfig(radarRadius)

\* new EntityTracker(radius), with this.maxEntities set to limit
InitStore(radius, limit) ==
    /\ entities = <<>>
    /\ spatialGrid = << >>
    /\ distanceCache = << >>
    /\ playerPosition = NoPosition
    /\ lastPlayerPosHash = NoPosition
    /\ radarRadius = radius
    /\ maxEntities = limit
    /\ now = 0
    /\ trackerMetrics = [spatialQueries |-> 0, distanceCalculations |-> 0]
    /\ InitHost

\* new EntityTracker(radius): this.maxEntities = 1000
InitTracker(radius) == InitStore(radius, 1000)

Init == InitWriter /\ InitTracker(DefaultRadius)

SpecWriter == Init /\ [][NextWriter /\ UNCHANGED <<tvars, xvars>>]_vars

\* The pipeline when every file operation issued eventually completes, with
\* success or with failure, every timer that was armed eventually fires and
\* every continuation that is ready eventually runs.  A chain is at one
\* place at a time, so one fairness condition per chain covers its steps.
chainContinues(c) ==
    /\ \/ writeToTempFileOpen(c)
       \/ writeToTempFileWrite(c)
       \/ atomicRenameIssue(c)
       \/ atomicRename(c)
       \/ ioFailure(c)
       \/ performAtomicWriteSuccess(c)
       \/ handleWriteError(c)
       \/ retryTimer(c)
    /\ UNCHANGED <<tvars, xvars>>

flushContinues == (flushResume \/ flushReturn) /\ UNCHANGED <<tvars, xvars>>

\* Requests arrive while at most MaxInFlight write chains are under way
\* (writing, or waiting on a retry timer); flush() may be called at any time.
MaxInFlight == 0
InFlight == {c \in Callers : chain[c].phase \notin {"none", "done"}}

NextPipeline ==
    \/ Cardinality(InFlight) <= MaxInFlight /\ writeRadarData
    \/ Cardinality(InFlight) <= MaxInFlight /\ writeRadarDataEmpty
    \/ \E c \in Callers : writeToTempFileOpen(c)
    \/ \E c \in Callers : writeToTempFileWrite(c)
    \/ \E c \in Callers : atomicRenameIssue(c)
    \/ \E c \in Callers : atomicRename(c)
    \/ \E c \in Callers : ioFailure(c)
    \/ \E c \in Callers : performAtomicWriteSuccess(c)
    \/ \E c \in Callers : handleWriteError(c)
    \/ \E c \in Callers : retryTimer(c)
    \/ flush
    \/ flushResume
    \/ flushReturn

SpecPipelineFair ==
    /\ Init
    /\ [][NextPipeline /\ UNCHANGED <<tvars, xvars>>]_vars
    /\ \A c \in Callers : WF_vars(chainContinues(c))
    /\ WF_vars(flushContinues)

\* The store driven by well-formed events: every position is {x, y, z}, an
\* upsert may come without a position.
NextTrackerWellFormed ==
    \/ \E gameId \in GameIds, position \in EntityPositions \cup {NoPosition} :
          addEntity(gameId, position)
    \/ \E gameId \in GameIds : removeEntity(gameId)
    \/ \E gameId \in GameIds, position \in EntityPositions :
          updateEntityPosition(gameId, position)
    \/ \E position \in ObserverPositions : setPlayerPosition(position)
    \/ queryEntitiesInRadius

InitRadar == InitWriter /\ \E radius \in RadiusChoices : InitTracker(radius)

SpecTrackerWellFormed == InitRadar /\ [][NextTrackerWellFormed]_vars

\* The store driven by any event: positions may also be malformed or null.
NextTracker ==
    \/ NextTrackerWellFormed
    \/ \E gameId \in GameIds, position \in MalformedPositions :
          addEntity(gameId, position)
    \/ \E gameId \in GameIds,
          position \in MalformedPositions \cup {NoPosition} :
          updateEntityPosition(gameId, position)

SpecTracker == InitRadar /\ [][NextTracker]_vars

\* ---- the scenario of three entities at raw distances 100, 200 and 500
\* units around an observer at the origin, radius 10 m
ScenarioRadius == 10
PosMidSide == <<0, -200 * TicksPerUnit, 0>>
PosFarSide == <<0, -500 * TicksPerUnit, 0>>
ScenarioPositions(gameId) ==
    CASE gameId = 1 -> {PosNear, PosNearSide}
      [] gameId = 2 -> {PosMid, PosMidSide}
      [] gameId = 3 -> {PosFar, PosFarSide}
ScenarioIds == {1, 2, 3}

NextScenario ==
    \/ \E gameId \in ScenarioIds :
          \E position \in ScenarioPositions(gameId) :
              addEntity(gameId, position)
    \/ \E gameId \in ScenarioIds : removeEntity(gameId)
    \/ setPlayerPosition(Origin)
    \/ queryEntitiesInRadius

InitScenario == InitWriter /\ InitTracker(ScenarioRadius)

SpecScenario == InitScenario /\ [][NextScenario]_vars

\* ---- capacity: distinct ids inserted one after the other into a store
\* whose ceiling is MaxEntitiesModel (a tenth of which is two entities) or
\* SmallCeiling (a tenth of which rounds down to none), with the clock
\* advancing in between and the first entities refreshed now and then
MaxEntitiesModel == 20
SmallCeiling == 3
ExtraInserts == 2
MaxTime == 1
RefreshIds == {1, 2}

MaxId(ents) ==
    IF ents = <<>> THEN 0
    ELSE CHOOSE m \in Ids(ents) : \A x \in Ids(ents) : x <= m

insertNext ==
    /\ MaxId(entities) < maxEntities + ExtraInserts
    /\ addEntity(MaxId(entities) + 1, PosNear)

refresh(gameId) ==
    /\ HasEntity(entities, gameId)
    /\ updateEntityPosition(gameId, PosNear)

tick ==
    /\ now < MaxTime
    /\ now' = now + 1
    /\ UNCHANGED <<entities, spatialGrid, distanceCache, playerPosition,
                   lastPlayerPosHash, radarRadius, maxEntities,
                   trackerMetrics, wvars, xvars>>

NextEviction ==
    \/ insertNext
    \/ \E gameId \in RefreshIds : refresh(gameId)
    \/ tick

InitEviction ==
    /\ InitWriter
    /\ entities = <<>>
    /\ spatialGrid = << >>
    /\ distanceCache = << >>
    /\ playerPosition = NoPosition
    /\ lastPlayerPosHash = NoPosition
    /\ radarRadius = DefaultRadius
    /\ trackerMetrics = [spatialQueries |-> 0, distanceCalculations |-> 0]
    /\ InitHost
    /\ maxEntities \in {SmallCeiling, MaxEntitiesModel}
    /\ now = 0

SpecEviction == InitEviction /\ [][NextEviction]_vars

\* ---- the ceiling: as above with the ceiling of the code (scaled to
\* MaxEntitiesModel), and upserts of tracked ids instead of position updates
CeilingIds == {3}

reinsert(gameId) ==
    /\ HasEntity(entities, gameId)
    /\ addEntity(gameId, PosNear)

NextCeiling ==
    \/ insertNext
    \/ \E gameId \in CeilingIds : reinsert(gameId)
    \/ tick

InitCeiling == InitEviction /\ maxEntities = MaxEntitiesModel

SpecCeiling == InitCeiling /\ [][NextCeiling]_vars

\* ---- calls whose result the caller observes, and the host's handlers

ObserveCall(op, arg, value) ==
    /\ returned' = [op |-> op, arg |-> arg, value |-> value]
    /\ UNCHANGED <<lastCleanup, interceptorPosition, writeTimer, destroyed,
                   config, pvars>>

\* return this.entities.delete(gameId)
removeEntityReturn(ents, gameId) == HasEntity(ents, gameId)

callRemoveEntity(gameId) ==
    /\ removeEntityStep(gameId)
    /\ ObserveCall("removeEntity", gameId,
                   removeEntityReturn(entities, gameId))

callAddEntity(entityData) ==
    /\ addEntityStep(entityData)
    /\ ObserveCall("addEntity", entityData.gameId,
                   addEntityReturn(entityData))

\* clear()
clearStep ==
    /\ entities' = <<>>
    /\ playerPosition' = NoPosition
    /\ UNCHANGED <<spatialGrid, distanceCache, lastPlayerPosHash, radarRadius,
                   maxEntities, now, trackerMetrics>>

clear == clearStep /\ UNCHANGED <<wvars, xvars>>

\* DataProcessor's template id ranges.
NPC_TEMPLATE_ID_MIN == 1000
NPC_TEMPLATE_ID_MAX == 9999
MONSTER_TEMPLATE_ID_MIN == 10000

\* DataProcessor.determineEntityType(rawData): the `type` field that
\* processEntitySpawn computes for the entityData, which the Entity
\* constructor does not read.
determineEntityType(rawData) ==
    IF rawData.playerId # 0 \/ rawData.accountId # 0 \/ rawData.isPlayer
        THEN "Player"
    ELSE IF /\ rawData.templateId >= NPC_TEMPLATE_ID_MIN
            /\ rawData.templateId <= NPC_TEMPLATE_ID_MAX
        THEN "NPC"
    ELSE IF rawData.templateId >= MONSTER_TEMPLATE_ID_MIN
        THEN "Monster"
    ELSE IF rawData.npcId # 0 \/ rawData.isNPC
        THEN "NPC"
    ELSE IF rawData.monsterId # 0 \/ rawData.isMonster
        THEN "Monster"
    ELSE IF rawData.name # "" /\ rawData.level # 0 /\ rawData.class # ""
        THEN "Player"
    ELSE "Monster"

\* DataProcessor.processEntitySpawn(rawEvent): the entityData handed to the
\* tracker (isPlayer, isNPC and isMonster are not copied), for an event
\* that has its gameId.
processEntitySpawn(rawEvent) ==
    [BlankData(rawEvent.gameId) EXCEPT
        !.name = IF rawEvent.name # "" THEN rawEvent.name ELSE "Unknown",
        !.position = IF rawEvent.position = NoPosition THEN <<0, 0, 0>>
                     ELSE rawEvent.position,
        !.hp = OrNull(rawEvent.hp),
        !.maxHp = OrNull(rawEvent.maxHp),
        !.level = rawEvent.level,
        !.class = rawEvent.class,
        !.templateId = rawEvent.templateId,
        !.playerId = rawEvent.playerId,
        !.accountId = rawEvent.accountId,
        !.relation = OrNull(rawEvent.relation)]

\* PacketInterceptor.onEntitySpawn(event, entityType): an event without
\* gameId is dropped by processEntitySpawn.
onEntitySpawn(event) ==
    IF event.gameId = NoId
        THEN /\ ObserveCall("onEntitySpawn", NoId, JsNull)
             /\ UNCHANGED <<tvars, wvars>>
        ELSE /\ addEntityStep(processEntitySpawn(event))
             /\ ObserveCall("onEntitySpawn", event.gameId, event.gameId)

\* PacketInterceptor.onEntityDespawn(event, entityType)
onEntityDespawn(gameId) ==
    IF gameId = NoId
        THEN /\ ObserveCall("onEntityDespawn", NoId, FALSE)
             /\ UNCHANGED <<tvars, wvars>>
        ELSE /\ removeEntityStep(gameId)
             /\ ObserveCall("onEntityDespawn", gameId,
                            removeEntityReturn(entities, gameId))

\* ---- the store under spawns, despawns, observer updates, queries and
\* clear(), radius 10 m, two entities at equal distance from the origin
StorePositions == {PosNear, PosNearSide}
StoreIds == {1, 2}

NextStore ==
    \/ \E gameId \in StoreIds, position \in StorePositions :
          addEntity(gameId, position)
    \/ \E gameId \in StoreIds : callRemoveEntity(gameId)
    \/ setPlayerPosition(Origin)
    \/ queryEntitiesInRadius
    \/ clear

SpecStore == InitScenario /\ [][NextStore]_vars

\* updateEntityHealth(gameId, hp, maxHp)
updateEntityHealthStep(gameId, hp, maxHp) ==
    /\ entities' = updateEntityHealthIn(entities, gameId, hp, maxHp, now)
    /\ UNCHANGED <<spatialGrid, distanceCache, playerPosition,
                   lastPlayerPosHash, radarRadius, maxEntities, now,
                   trackerMetrics, wvars>>

updateEntityHealth(gameId, hp, maxHp) ==
    updateEntityHealthStep(gameId, hp, maxHp) /\ UNCHANGED xvars

\* ---- upserts: one id spawned as a friendly player or as a hostile NPC,
\* patched attribute by attribute, despawned and spawned again
PlayerSpawn(gameId) ==
    [BlankData(gameId) EXCEPT !.position = PosNear, !.name = "Alice",
        !.hp = 10, !.maxHp = 20, !.level = 5, !.class = "warrior",
        !.isPlayer = TRUE, !.relation = 2]

NpcSpawn(gameId) ==
    [BlankData(gameId) EXCEPT !.templateId = 1000, !.relation = 0]

UpsertPatches(gameId) ==
    {PlayerSpawn(gameId), NpcSpawn(gameId), BlankData(gameId),
     [BlankData(gameId) EXCEPT !.name = "Bob"],
     [BlankData(gameId) EXCEPT !.hp = 0],
     [BlankData(gameId) EXCEPT !.maxHp = 30],
     [BlankData(gameId) EXCEPT !.hp = JsNull],
     [BlankData(gameId) EXCEPT !.level = 6, !.class = "archer"],
     [BlankData(gameId) EXCEPT !.position = PosFar],
     [BlankData(gameId) EXCEPT !.position = <<100 * TicksPerUnit, 0>>]}

UpsertIds == {1}

NextUpsert ==
    \/ \E gameId \in UpsertIds : \E entityData \in UpsertPatches(gameId) :
          callAddEntity(entityData)
    \/ \E gameId \in UpsertIds : callRemoveEntity(gameId)
    \/ \E gameId \in UpsertIds, hp \in {5, JsUndefined} :
          updateEntityHealth(gameId, hp, JsUndefined)

SpecUpsert == InitScenario /\ [][NextUpsert]_vars

\* ---- events without identity arriving at a store that fills up to its
\* ceiling (a tenth of which is one entity)
RejectCeiling == 10

InitRejected == InitWriter /\ InitStore(ScenarioRadius, RejectCeiling)

NextRejected ==
    \/ insertNext
    \/ setPlayerPosition(Origin)
    \/ queryEntitiesInRadius
    \/ \E position \in {PosNear, NoPosition} :
          callAddEntity(EntityData(NoId, position))
    \/ onEntitySpawn(PlayerSpawn(NoId))
    \/ onEntityDespawn(NoId)

SpecRejected == InitRejected /\ [][NextRejected]_vars

\* ---- the running mod: packet handlers and the radar interval

\* PacketInterceptor.onPlayerLocation(event): processPlayerLocation always
\* yields a position of three numbers.
onPlayerLocation(position) ==
    /\ setPlayerPositionStep(position)
    /\ interceptorPosition' = position
    /\ UNCHANGED <<lastCleanup, returned, writeTimer, destroyed, config,
                   pvars>>

\* DataProcessor.processEntityHealthChange(rawEvent), for an event that has
\* its gameId: hp = curHp || hp || 0, maxHp = maxHp || null.
processEntityHealthChange(rawEvent) ==
    [gameId |-> rawEvent.gameId,
     hp |-> IF IsNumber(rawEvent.hp) THEN rawEvent.hp ELSE 0,
     maxHp |-> IF IsNumber(rawEvent.maxHp) /\ rawEvent.maxHp # 0
                  THEN rawEvent.maxHp ELSE JsNull]

\* PacketInterceptor.onHealthChange(event)
onHealthChange(event) ==
    IF event.gameId = NoId
        THEN UNCHANGED vars
        ELSE LET processedData == processEntityHealthChange(event)
             IN updateEntityHealth(processedData.gameId, processedData.hp,
                                   processedData.maxHp)

\* The callback of radarInterval: getPlayerState() and
\* getEntitiesInRadius(), sent to the server.
radarInterval == queryEntitiesInRadius

\* ---- staleness: cleanupStaleEntities and performMaintenance, time in ms

\* cleanupStaleEntities(maxAge = 60000)
staleEntityThreshold == 60000
\* this.cleanupInterval = 30000
cleanupInterval == 30000

\* The ids cleanupStaleEntities collects: now - entity.lastUpdate > maxAge.
StaleIds(ents, maxAge, time) ==
    {ents[i].gameId : i \in {j \in 1..Len(ents) :
                                time - ents[j].lastUpdate > maxAge}}

\* cleanupStaleEntities(maxAge), the definition in force (the second one):
\* removeEntity for each stale id, the cache emptied when it holds more
\* than 1000 entries, empty grid cells deleted.
cleanupStaleEntitiesIn(st, maxAge, radius, time) ==
    LET swept == RemoveAll(st, StaleIds(st.entities, maxAge, time), radius)
    IN Store(swept.entities,
             [k \in {key \in DOMAIN swept.spatialGrid :
                        swept.spatialGrid[key] # <<>>} |->
                  swept.spatialGrid[k]],
             IF Cardinality(DOMAIN swept.distanceCache) > 1000
                THEN << >> ELSE swept.distanceCache)

cleanupStaleEntities(maxAge) ==
    /\ SetStore(cleanupStaleEntitiesIn(TrackerStore, maxAge, radarRadius,
                                       now))
    /\ lastCleanup' = now
    /\ UNCHANGED <<playerPosition, lastPlayerPosHash, radarRadius,
                   maxEntities, now, trackerMetrics, wvars, returned,
                   interceptorPosition, writeTimer, destroyed, config,
                   pvars>>

\* performMaintenance()
performMaintenance ==
    IF now - lastCleanup > cleanupInterval
        THEN cleanupStaleEntities(staleEntityThreshold)
        ELSE UNCHANGED vars

\* Time passing: Date.now() advances by the cleanup interval, or by one
\* millisecond more, so that both sides of each threshold are reached.
MaxClock == 60002
ElapseSteps == {cleanupInterval, cleanupInterval + 1}

elapse(ms) ==
    /\ now + ms <= MaxClock
    /\ now' = now + ms
    /\ UNCHANGED <<entities, spatialGrid, distanceCache, playerPosition,
                   lastPlayerPosHash, radarRadius, maxEntities,
                   trackerMetrics, wvars, xvars>>

\* The store used as PerformanceTest uses it: the caller forces a cleanup
\* with cleanupStaleEntities(0) or runs performMaintenance.
NextStale ==
    \/ \E gameId \in StoreIds : addEntity(gameId, PosNear)
    \/ \E ms \in ElapseSteps : elapse(ms)
    \/ cleanupStaleEntities(0)
    \/ performMaintenance

SpecStale == InitScenario /\ [][NextStale]_vars

\* ---- the mod while the game runs: spawns, despawns, health changes,
\* player locations, the radar interval and time passing.  Nothing the mod
\* schedules calls performMaintenance or cleanupStaleEntities.
HealthEvents(gameId) ==
    {[gameId |-> gameId, hp |-> hp, maxHp |-> JsUndefined] : hp \in {5, 6}}

\* The game goes on around a second entity: it is spawned when it is not
\* there and its health keeps changing.
BusyIds == {2}
BusyEvents == UNION {HealthEvents(gameId) : gameId \in BusyIds}

NextRunning ==
    \/ \E gameId \in StoreIds : onEntitySpawn(PlayerSpawn(gameId))
    \/ \E gameId \in StoreIds : onEntityDespawn(gameId)
    \/ \E event \in BusyEvents : onHealthChange(event)
    \/ onPlayerLocation(Origin)
    \/ radarInterval
    \/ \E ms \in ElapseSteps : elapse(ms)

SpecRunning == InitScenario /\ [][NextRunning]_vars

\* ENABLED <<radarInterval>>_vars written out: the interval's callback
\* changes the state when there is an observer (the query is counted) and
\* the modelled counter has room.
RadarIntervalDue ==
    /\ playerPosition # NoPosition
    /\ trackerMetrics.spatialQueries < MaxQueries

\* The clock advances and the radar interval fires for as long as they can
\* (weak fairness of both, the second with its enabling condition written
\* out), and the game keeps sending events about the second entity (it is
\* spawned if it stays away, its health changes while it is there); events
\* about the other entities may or may not arrive.
SpecRunningFair ==
    /\ SpecRunning
    /\ WF_vars(\E ms \in ElapseSteps : elapse(ms))
    /\ ([]<>(~RadarIntervalDue) \/ []<><<radarInterval>>_vars)
    /\ \A gameId \in BusyIds :
          \/ []<>HasEntity(entities, gameId)
          \/ []<><<onEntitySpawn(PlayerSpawn(gameId))>>_vars
    /\ WF_vars(\E event \in BusyEvents : onHealthChange(event))

\* ---- getStats()

\* The object getStats() returns, q being the result of its
\* getEntitiesInRadius() call: the counters and sizes are read after it.
getStatsReturn(q) ==
    [totalEntities |-> Len(entities),
     entitiesInRadius |-> Len(q.result),
     radarRadius |-> radarRadius,
     playerPosition |-> playerPosition,
     typeBreakdown |->
        [t \in {entities[i].type : i \in 1..Len(entities)} |->
            Cardinality({i \in 1..Len(entities) : entities[i].type = t})],
     hasPlayerPosition |-> playerPosition # NoPosition,
     performance |->
        [spatialQueries |-> MetricsAfter(q).spatialQueries,
         distanceCalculations |-> MetricsAfter(q).distanceCalculations,
         distanceCacheSize |-> Cardinality(DOMAIN q.distanceCache),
         spatialGridCells |-> Cardinality(DOMAIN spatialGrid)]]

\* getStats(): const entitiesInRadius = this.getEntitiesInRadius(); ...
getStats ==
    LET q == EntitiesInRadius
    IN /\ runQueryOf(q)
       /\ ObserveCall("getStats", 0, getStatsReturn(q))
       /\ UNCHANGED wvars

\* A status command reading the statistics of a store in use.
StatsIds == {1, 2}

NextStats ==
    \/ \E gameId \in StatsIds, position \in {PosNear, PosFar} :
          addEntity(gameId, position)
    \/ \E gameId \in StatsIds : removeEntity(gameId)
    \/ \E position \in {Origin, PosNear} : setPlayerPosition(position)
    \/ getStats

SpecStats == InitScenario /\ [][NextStats]_vars

\* ---- periodic file output and shutdown

\* The intervals left after clearInterval(handle).
clearInterval(live, handle) == live \ {handle}

\* The handle setInterval returns: a new one, that is neither a live
\* interval's nor the one this.writeTimer held last.
setInterval(live, last) ==
    LET used == live \cup {last}
    IN CHOOSE h \in 1..(Cardinality(used) + 1) :
          h \notin used /\ \A g \in 1..(h - 1) : g \in used

\* stopPeriodicUpdates(): if (this.writeTimer) { clearInterval; null }
stopPeriodicUpdatesStep ==
    /\ writeTimer' = Null
    /\ liveIntervals' = IF writeTimer # Null
                           THEN clearInterval(liveIntervals, writeTimer)
                           ELSE liveIntervals

\* Mutant: a timer that is set is not stopped before the new one is made.
intervalsBeforeStartKept(live, handle) == live

\* The intervals alive when startPeriodicUpdates reaches setInterval:
\* if (this.writeTimer) { this.stopPeriodicUpdates(); }
intervalsBeforeStart(live, handle) ==
    IF handle # Null THEN clearInterval(live, handle) ELSE live

\* FileOutputManager.startPeriodicUpdates(dataProvider)
startPeriodicUpdatesStep ==
    LET live == intervalsBeforeStart(liveIntervals, writeTimer)
    IN /\ writeTimer' = setInterval(live, writeTimer)
       /\ liveIntervals' = live \cup {setInterval(live, writeTimer)}

\* handleRadarStartCommand: startPeriodicUpdates(() => getRadarSnapshot()),
\* refused while the timer is set.
startPeriodicUpdates ==
    /\ ~destroyed
    /\ writeTimer = Null
    /\ startPeriodicUpdatesStep
    /\ UNCHANGED <<wvars, tvars, lastCleanup, returned, interceptorPosition,
                   destroyed, config, updateInterval>>

\* The setInterval callback of startPeriodicUpdates: the provider's
\* getRadarSnapshot() queries the store, writeRadarData(data) takes the
\* snapshot.
periodicUpdate ==
    /\ liveIntervals # {}
    /\ runQueryStep
    /\ writeRadarData
    /\ UNCHANGED xvars

\* A continuation of the write pipeline (file operation completing, retry
\* timer firing); none of them looks at writeTimer.
writeContinuation ==
    /\ \/ \E c \in Callers : writeToTempFileOpen(c)
       \/ \E c \in Callers : writeToTempFileWrite(c)
       \/ \E c \in Callers : atomicRenameIssue(c)
       \/ \E c \in Callers : atomicRename(c)
       \/ \E c \in Callers : ioFailure(c)
       \/ \E c \in Callers : performAtomicWriteSuccess(c)
       \/ \E c \in Callers : handleWriteError(c)
       \/ \E c \in Callers : retryTimer(c)
    /\ UNCHANGED <<tvars, xvars>>

\* FileOutputManager.destroy(): stopPeriodicUpdates(), then the temp file is
\* unlinked if it exists.  Nothing waits for isWriting or pendingData.
destroyStep ==
    /\ stopPeriodicUpdatesStep
    /\ fsTemp' = 0
    /\ inodes' = Release(inodes, 0, fsTarget, chain)
    /\ destroyed' = TRUE
    /\ UNCHANGED <<isWriting, pendingData, retryCount, performanceMetrics,
                   chain, results, fsTarget, reqCount, lastSnapshot, flushPc,
                   attempts, dropped>>

\* PacketInterceptor.cleanup()
interceptorCleanup == interceptorPosition' = NoPosition

\* TeraRadarMod.cleanup(): fileOutputManager.destroy(),
\* entityTracker.clear(), packetInterceptor.cleanup().
cleanup ==
    /\ ~destroyed
    /\ destroyStep
    /\ clearStep
    /\ interceptorCleanup
    /\ UNCHANGED <<lastCleanup, returned, config, updateInterval>>

\* TeraRadarMod.onLeaveGame(): stopPeriodicUpdates(), entityTracker.clear(),
\* packetInterceptor.cleanup().
onLeaveGame ==
    /\ ~destroyed
    /\ stopPeriodicUpdatesStep
    /\ clearStep
    /\ interceptorCleanup
    /\ UNCHANGED <<wvars, lastCleanup, returned, destroyed, config,
                   updateInterval>>

\* The spawn hook, installed until the mod is unloaded.
hookedEntitySpawn(event) == ~destroyed /\ onEntitySpawn(event)

ShutdownIds == {1}

NextShutdown ==
    \/ startPeriodicUpdates
    \/ periodicUpdate
    \/ writeContinuation
    \/ \E gameId \in ShutdownIds : hookedEntitySpawn(PlayerSpawn(gameId))
    \/ onLeaveGame
    \/ cleanup

SpecShutdown == InitScenario /\ [][NextShutdown]_vars

\* ---- the periodic timer under radar start, radar stop and changes of the
\* update interval

\* handleRadarStopCommand and the other callers of stopPeriodicUpdates()
stopPeriodicUpdates ==
    /\ ~destroyed
    /\ stopPeriodicUpdatesStep
    /\ UNCHANGED <<wvars, tvars, lastCleanup, returned, interceptorPosition,
                   destroyed, config, updateInterval>>

\* A caller of startPeriodicUpdates(dataProvider) that does not look at
\* writeTimer first.
callStartPeriodicUpdates ==
    /\ ~destroyed
    /\ startPeriodicUpdatesStep
    /\ UNCHANGED <<wvars, tvars, lastCleanup, returned, interceptorPosition,
                   destroyed, config, updateInterval>>

\* FileOutputManager.updateConfig({updateInterval}): a new interval is
\* stored, and a running timer is stopped and started again with the
\* provider it had.
updateConfigStep(interval) ==
    IF interval # 0 /\ interval # updateInterval
        THEN /\ updateInterval' = interval
             /\ IF writeTimer # Null
                   THEN LET stopped == clearInterval(liveIntervals, writeTimer)
                            live == intervalsBeforeStart(stopped, Null)
                        IN /\ writeTimer' = setInterval(live, writeTimer)
                           /\ liveIntervals' =
                                 live \cup {setInterval(live, writeTimer)}
                   ELSE UNCHANGED <<writeTimer, liveIntervals>>
        ELSE UNCHANGED <<updateInterval, writeTimer, liveIntervals>>

\* handleConfigCommand('updateInterval', value) with a number: the
\* configuration accepts an interval >= 10 and the pipeline is told.
handleUpdateIntervalCommand(value) ==
    /\ ~destroyed
    /\ IF value >= 10
          THEN updateConfigStep(value)
          ELSE UNCHANGED <<updateInterval, writeTimer, liveIntervals>>
    /\ UNCHANGED <<wvars, tvars, lastCleanup, returned, interceptorPosition,
                   destroyed, config>>

UpdateIntervals == {5, 50, 100}

NextTimer ==
    \/ startPeriodicUpdates
    \/ callStartPeriodicUpdates
    \/ stopPeriodicUpdates
    \/ \E value \in UpdateIntervals : handleUpdateIntervalCommand(value)
    \/ periodicUpdate
    \/ writeContinuation
    \/ \E gameId \in ShutdownIds : hookedEntitySpawn(PlayerSpawn(gameId))

SpecTimer == InitScenario /\ [][NextTimer]_vars

\* ---- radar snapshots

\* setRadarRadius(radius)
setRadarRadiusStep(radius) ==
    /\ radarRadius' = IF radius > 0 THEN radius ELSE radarRadius
    /\ UNCHANGED <<entities, spatialGrid, distanceCache, playerPosition,
                   lastPlayerPosHash, maxEntities, now, trackerMetrics>>

\* TeraRadarMod.handleRadiusCommand(radius) with a number: a positive
\* radius goes to the configuration and to the tracker.
handleRadiusCommand(newRadius) ==
    IF newRadius > 0
        THEN /\ config' = validateAndMergeConfig(newRadius)
             /\ setRadarRadiusStep(newRadius)
             /\ UNCHANGED <<wvars, lastCleanup, returned,
                            interceptorPosition, writeTimer, destroyed,
                            pvars>>
        ELSE UNCHANGED vars

\* TeraRadarMod.handleConfigCommand('radarRadius', value) with a number:
\* an accepted value goes to the configuration; the tracker is not told.
handleConfigCommand(value) ==
    IF value > 0
        THEN /\ config' = validateAndMergeConfig(value)
             /\ UNCHANGED <<wvars, tvars, lastCleanup, returned,
                            interceptorPosition, writeTimer, destroyed,
                            pvars>>
        ELSE UNCHANGED vars

\* PacketInterceptor.getPlayerState(): position and isActive (rotation, yaw
\* and pitch are not modelled).
getPlayerState ==
    [given |-> TRUE,
     position |-> interceptorPosition,
     isActive |-> interceptorPosition # NoPosition]

\* playerState = null
NoPlayerState == [given |-> FALSE, position |-> NoPosition, isActive |-> FALSE]

\* player.isActive for the tracker alone: this.playerPosition !== null.
\* (Taking it also when a player state is given loses the interceptor's.)
playerDataOfTrackerOnly(playerState) ==
    [position |-> IF playerState.given /\ playerState.position # NoPosition
                     THEN playerState.position ELSE playerPosition,
     isActive |-> playerPosition # NoPosition]

\* playerData of EntityTracker.getRadarSnapshot(playerState): the tracker's
\* own position and activity, overridden by the player state when given.
playerDataOf(playerState) ==
    [position |-> IF playerState.given /\ playerState.position # NoPosition
                     THEN playerState.position ELSE playerPosition,
     isActive |-> IF playerState.given THEN playerState.isActive
                  ELSE playerPosition # NoPosition]

\* The distance entity.toOutputFormat(this.playerPosition) reports for a
\* listed entity: calculateDistanceFrom the tracker's observer position (as
\* the square of the raw distance; the division by 16.49 is the same for
\* every distance).
toOutputDistance(gameId) ==
    SquaredDistance(GetEntity(entities, gameId).position, playerPosition)

\* EntityTracker.getRadarSnapshot(playerState), q being the result of its
\* getEntitiesInRadius() call; an entity of the output is its gameId.
getRadarSnapshot(playerState, q) ==
    [player |-> playerDataOf(playerState),
     entities |-> q.result,
     metadata |-> [entitiesInRadius |-> Len(q.result),
                   radarRadius |-> radarRadius,
                   totalEntitiesTracked |-> Len(entities)]]

\* TeraRadarMod.getRadarSnapshot(): the tracker's snapshot for the
\* interceptor's player state, with falsy metadata replaced by defaults.
modRadarSnapshot(q) ==
    LET snapshot == getRadarSnapshot(getPlayerState, q)
    IN [snapshot EXCEPT
          !.metadata.radarRadius =
              IF snapshot.metadata.radarRadius # 0
                  THEN snapshot.metadata.radarRadius
                  ELSE IF config.radarRadius # 0 THEN config.radarRadius
                       ELSE 50]

\* A caller of TeraRadarMod.getRadarSnapshot() (status command, periodic
\* output) reads the snapshot.
callModRadarSnapshot ==
    LET q == EntitiesInRadius
    IN /\ runQueryOf(q)
       /\ ObserveCall("getRadarSnapshot", 1, modRadarSnapshot(q))
       /\ UNCHANGED wvars

\* A caller of EntityTracker.getRadarSnapshot() without player state.
callRadarSnapshot ==
    LET q == EntitiesInRadius
    IN /\ runQueryOf(q)
       /\ ObserveCall("getRadarSnapshot", 0,
                      getRadarSnapshot(NoPlayerState, q))
       /\ UNCHANGED wvars

\* The mod in a game session: spawns, despawns, player locations, radius
\* and configuration commands, leaving the game, and snapshots being taken.
SnapshotIds == {1}
SnapshotRadii == {10, 20}
SnapshotSpawns(gameId) ==
    {PlayerSpawn(gameId), [PlayerSpawn(gameId) EXCEPT !.position = PosFar]}

NextSnapshot ==
    \/ \E gameId \in SnapshotIds : \E event \in SnapshotSpawns(gameId) :
          onEntitySpawn(event)
    \/ \E gameId \in SnapshotIds : onEntityDespawn(gameId)
    \/ onPlayerLocation(Origin)
    \/ \E newRadius \in SnapshotRadii : handleRadiusCommand(newRadius)
    \/ \E value \in SnapshotRadii : handleConfigCommand(value)
    \/ onLeaveGame
    \/ callModRadarSnapshot
    \/ callRadarSnapshot

SpecSnapshot == InitScenario /\ [][NextSnapshot]_vars

\* ------------------------------------------- FileOutputManager properties

\* No chain is between two steps and no retry timer is outstanding.
Quiescent == \A c \in Callers : chain[c].phase \in {"none", "done"}

\* What a reader of outputPath sees.
TargetPresent == fsTarget # 0
TargetContent == inodes[fsTarget]

\* C1: a reader of the target file sees, at every instant, the complete
\* serialization of one of the snapshots requested so far: never a truncated
\* file and never a mix of two snapshots.
TargetAlwaysComplete ==
    TargetPresent => \E s \in 1..reqCount : TargetContent = Serialize(s)

\* C2: a snapshot requested while a write is in flight replaces the pending
\* one and is eventually delivered: when no file operation ever failed and
\* the pipeline has come to rest, the target file holds the serialization of
\* the latest snapshot requested.
LatestSnapshotDelivered ==
    (/\ Quiescent
     /\ lastSnapshot # Null
     /\ performanceMetrics.failedWrites = 0)
        => (TargetPresent /\ TargetContent = Serialize(lastSnapshot))

\* C7: one snapshot whose write failed twice and succeeded at the third
\* attempt leaves successfulWrites = 1, failedWrites = 0 and
\* retryOperations = 2, and its writeRadarData resolved to true.
RetryScenarioCounters ==
    (/\ reqCount = 1
     /\ flushPc = "idle"
     /\ attempts[1] = 3
     /\ chain[1].phase = "done"
     /\ 1 \notin dropped)
        => (/\ results[1] = "true"
            /\ performanceMetrics.successfulWrites = 1
            /\ performanceMetrics.failedWrites = 0
            /\ performanceMetrics.retryOperations = 2)

\* C8: a snapshot whose writes keep failing is attempted at most
\* 1 + maxRetries times before it is dropped and the pipeline is idle again.
AttemptsWithinCeiling ==
    \A s \in Snapshots : attempts[s] <= 1 + maxRetries

\* C9: at the moment flush() returns no write is in flight, nothing is
\* pending, and the last snapshot requested is the content of the target file
\* unless it was dropped at the retry ceiling.
FlushLeavesNothingBehind ==
    [][(flushPc = "poll" /\ flushPc' = "returned") =>
            /\ ~isWriting'
            /\ pendingData' = Null
            /\ \/ lastSnapshot' = Null
               \/ lastSnapshot' \in dropped'
               \/ (fsTarget' # 0
                   /\ inodes'[fsTarget'] = Serialize(lastSnapshot'))]_vars

\* --------------------------------------------- EntityTracker properties

\* The cells gameId is registered in.
CellsOf(gameId) ==
    {key \in DOMAIN spatialGrid : gameId \in SeqRange(spatialGrid[key])}

\* C3: after each addEntity, updateEntityPosition and removeEntity every
\* tracked entity with a known position is registered in exactly one cell of
\* the spatial grid, the cell computed from its current position.
IndexCoherent ==
    \A i \in 1..Len(entities) :
        entities[i].known =>
            CellsOf(entities[i].gameId)
                = {getGridKey(entities[i].position, radarRadius)}

\* The tracked entities within the radius of the observer, by true distance.
TrulyInRadius ==
    {gameId \in Ids(entities) :
        /\ GetEntity(entities, gameId).known
        /\ SquaredDistance(GetEntity(entities, gameId).position,
                           playerPosition)
              <= radarRadiusTeraUnits(radarRadius)
                    * radarRadiusTeraUnits(radarRadius)}

IsAscending(q) ==
    \A i, j \in 1..Len(q) :
        i < j => SquaredDistance(GetEntity(entities, q[i]).position,
                                 playerPosition)
                 <= SquaredDistance(GetEntity(entities, q[j]).position,
                                    playerPosition)

\* C4: with a known observer position getEntitiesInRadius returns exactly
\* the tracked entities whose true distance from the observer is at most the
\* radius, each once, in ascending order of distance.
QueryExact ==
    playerPosition # NoPosition =>
        LET q == EntitiesInRadius.result IN
        /\ SeqRange(q) = TrulyInRadius
        /\ Len(q) = Cardinality(TrulyInRadius)
        /\ IsAscending(q)

\* C5: the distance cache is transparent: getEntitiesInRadius returns the
\* same sequence with the cache as it stands and with the cache emptied.
CacheTransparent ==
    EntitiesInRadius.result
        = getEntitiesInRadius(entities, spatialGrid, << >>, playerPosition,
                              lastPlayerPosHash, radarRadius).result

\* C10: observer at the origin, radius 10 m (164.9 units), entities at raw
\* distances 100, 200 and 500 units: getEntitiesInRadius returns only the
\* entity at 100 units.
ScenarioOnlyNearest ==
    (playerPosition = Origin /\ Ids(entities) = ScenarioIds)
        => EntitiesInRadius.result = <<1>>

\* C10 witness: the three entities are tracked, the observer is at the
\* origin and a query has filled the cache with the three raw distances.
ScenarioQueried ==
    /\ playerPosition = Origin
    /\ Ids(entities) = ScenarioIds
    /\ \A gameId \in ScenarioIds :
          CacheKey("raw", gameId, lastPlayerPosHash) \in DOMAIN distanceCache

\* Number of distinct ids addEntity has been called for (ids are inserted
\* in increasing order, and the latest is always present).
InsertedIds == MaxId(entities)

LastUpdateOf(gameId) == GetEntity(entities, gameId).lastUpdate

\* C6: with ceiling N, after addEntity has been called for N + k distinct
\* ids (k >= 1) exactly N entities are present, the N most recently updated.
ExactlyCeilingRetained ==
    InsertedIds > maxEntities => Len(entities) = maxEntities

\* C6 as amended: an addEntity of a new id that finds N or more entities
\* present first evicts floor(N/10) entities (none when N < 10), and these
\* are the least recently updated: no evicted entity was updated later than
\* a retained one. Hence for N >= 10, after N + k distinct ids at most N and
\* at least N - floor(N/10) + 1 entities are present.
EvictsOldestTenth ==
    /\ [](maxEntities >= 10 =>
            /\ Len(entities) <= maxEntities
            /\ InsertedIds > maxEntities =>
                  Len(entities) >= maxEntities - (maxEntities \div 10) + 1)
    /\ [][(Len(entities) >= maxEntities /\ InsertedIds' > InsertedIds) =>
            LET evicted == Ids(entities) \ Ids(entities') IN
            /\ Cardinality(evicted) = maxEntities \div 10
            /\ \A v \in evicted, r \in Ids(entities) \ evicted :
                  LastUpdateOf(v) <= LastUpdateOf(r)]_vars

\* C6 witness: an eviction has taken place, and it had to choose between
\* entities of different age.
EvictionHappened ==
    /\ maxEntities >= 10
    /\ InsertedIds > maxEntities
    /\ Len(entities) < InsertedIds
    /\ \E i, j \in 1..Len(entities) :
          entities[i].lastUpdate # entities[j].lastUpdate

\* C11: removeEntity(id) for an id that is not tracked returns false and
\* leaves the entity map, the spatial index and the distance cache as they
\* are (so a second removeEntity(id) changes nothing).
RemoveUntrackedChangesNothing ==
    [][\A gameId \in StoreIds :
          (callRemoveEntity(gameId) /\ ~HasEntity(entities, gameId)) =>
             /\ returned'.value = FALSE
             /\ UNCHANGED <<entities, spatialGrid, distanceCache>>]_vars

\* C12: in the sequence getEntitiesInRadius returns, two entities at equal
\* distance from the observer are ordered by entity id.
TiesOrderedById ==
    LET q == EntitiesInRadius.result IN
    \A i, j \in 1..Len(q) :
        (/\ i < j
         /\ SquaredDistance(GetEntity(entities, q[i]).position,
                            playerPosition)
              = SquaredDistance(GetEntity(entities, q[j]).position,
                                playerPosition))
            => q[i] < q[j]

\* C13: whenever no observer position is known (before the first
\* setPlayerPosition and after clear()), getEntitiesInRadius returns the
\* empty sequence, whatever the tracked population.
NoObserverNoResult ==
    playerPosition = NoPosition => EntitiesInRadius.result = <<>>

\* C13 witness: after a clear() that forgot the observer (its bucket is
\* still remembered) entities are tracked again at known positions.
ObserverForgottenWithPopulation ==
    /\ playerPosition = NoPosition
    /\ lastPlayerPosHash # NoPosition
    /\ \E i \in 1..Len(entities) : entities[i].known

\* C14: addEntity on an already-known id never fails and is an upsert: the
\* population count is unchanged, every attribute absent from the patch
\* (name, level, class, hp, maxHp, position) keeps its value, and type and
\* isFriendly are modified by no update while the entity stays in the store.
UpsertKeepsAbsentAttributes ==
    /\ [][\A gameId \in UpsertIds : \A d \in UpsertPatches(gameId) :
            (callAddEntity(d) /\ HasEntity(entities, gameId)) =>
                LET old == GetEntity(entities, gameId)
                    new == GetEntity(entities', gameId)
                IN /\ returned'.value = gameId
                   /\ Len(entities') = Len(entities)
                   /\ d.name = "" => new.name = old.name
                   /\ d.level = 0 => new.level = old.level
                   /\ d.class = "" => new.class = old.class
                   /\ d.hp = JsUndefined => new.hp = old.hp
                   /\ d.maxHp = JsUndefined => new.maxHp = old.maxHp
                   /\ d.position = NoPosition => new.position = old.position
          ]_vars
    /\ [][\A gameId \in UpsertIds :
            (HasEntity(entities, gameId) /\ HasEntity(entities', gameId)) =>
                /\ GetEntity(entities', gameId).type
                      = GetEntity(entities, gameId).type
                /\ GetEntity(entities', gameId).isFriendly
                      = GetEntity(entities, gameId).isFriendly]_vars

\* C14 witness: the player spawned as Alice with hp 10 has been patched by
\* an upsert carrying hp = 0 only, and by one a hostile NPC would send.
PatchedKnownEntity ==
    /\ returned.op = "addEntity"
    /\ HasEntity(entities, 1)
    /\ GetEntity(entities, 1).name = "Alice"
    /\ GetEntity(entities, 1).hp = 0
    /\ GetEntity(entities, 1).type = "Player"
    /\ GetEntity(entities, 1).maxHp = 30

\* C15: an upsert or despawn event without gameId is rejected and ignored:
\* null or false comes back and the entity map, the spatial index and the
\* distance cache are as before; no capacity eviction is triggered.
RejectsEventsWithoutIdentity ==
    [][(\/ \E position \in {PosNear, NoPosition} :
              callAddEntity(EntityData(NoId, position))
        \/ onEntitySpawn(PlayerSpawn(NoId))
        \/ onEntityDespawn(NoId)) =>
            /\ UNCHANGED <<entities, spatialGrid, distanceCache>>
            /\ returned'.op \in {"addEntity", "onEntitySpawn"} =>
                  returned'.value = JsNull
            /\ returned'.op = "onEntityDespawn" => returned'.value = FALSE
      ]_vars

\* C15 witness: an upsert without gameId has returned null at a store that
\* is at its ceiling and has distances cached.
RejectedAtCeiling ==
    /\ returned.op = "addEntity"
    /\ returned.value = JsNull
    /\ Len(entities) = maxEntities
    /\ distanceCache # << >>

\* C17: cleanupStaleEntities(0) forces full eviction: right after it the
\* store tracks no entity, whatever the entities' last update.
CleanupZeroEvictsAll ==
    [][cleanupStaleEntities(0) => entities' = <<>>]_vars

\* C16: an entity whose last update is older than the staleness threshold
\* (60 s) is eventually removed from the store and from the spatial index,
\* without a despawn event, while the mod keeps running (unless an update
\* arrives after all and it is stale no longer).
IsStale(gameId) ==
    /\ HasEntity(entities, gameId)
    /\ now - GetEntity(entities, gameId).lastUpdate > staleEntityThreshold

StaleEventuallyRemoved ==
    \A gameId \in StoreIds :
        [](IsStale(gameId) =>
             <>(\/ ~HasEntity(entities, gameId) /\ CellsOf(gameId) = {}
                \/ HasEntity(entities, gameId) /\ ~IsStale(gameId)))

\* C18: shutdown is an ordered teardown (timer stopped, pipeline flushed,
\* then resources released): once destroy() has released the resources no
\* write attempt starts and no file operation of a write completes.
NoWriteAfterRelease ==
    [][destroyed => /\ attempts' = attempts
                    /\ fsTemp' = fsTemp
                    /\ fsTarget' = fsTarget
                    /\ inodes' = inodes]_vars

\* C19: getStats() does not mutate state: the entity map, the spatial
\* index, the distance cache, the observer position and the performance
\* counters are the same after the call as before.
GetStatsLeavesStateAlone ==
    [][getStats => UNCHANGED <<entities, spatialGrid, distanceCache,
                               playerPosition, lastPlayerPosHash,
                               trackerMetrics>>]_vars

\* C20: in every snapshot produced by getRadarSnapshot,
\* metadata.entitiesInRadius is the length of the entities list,
\* metadata.totalEntitiesTracked is the number of tracked entities,
\* metadata.radarRadius is the radius the store is configured with, in
\* meters, and player.isActive is true exactly when player.position is
\* non-null.
SnapshotTaken ==
    /\ returned'.op = "getRadarSnapshot"
    /\ UNCHANGED <<entities, playerPosition, radarRadius,
                   interceptorPosition, config>>
    /\ (callModRadarSnapshot \/ callRadarSnapshot)

WritesInProgress ==
    {c \in Callers :
        chain[c].phase \in {"open", "write", "written", "rename", "renamed",
                            "failed"}}

SingleWriter == Cardinality(WritesInProgress) <= 1

\* C22: after an I/O failure the pipeline retries the same snapshot whose
\* write failed, with exponential backoff: the k-th retry of a write is
\* armed with a delay of retryDelay * 2^(k-1) ms, and when its timer fires
\* the content it writes is the snapshot of the failed attempt.
RetriesSameSnapshotWithBackoff ==
    [][\A c \in Callers :
         /\ (chain[c].phase = "failed" /\ chain'[c].phase = "timer")
               => chain'[c].delay = retryDelay * Pow2(chain'[c].retries - 1)
         /\ (chain[c].phase = "timer" /\ chain'[c].phase # "timer")
               => /\ chain'[c].phase = "open"
                  /\ chain'[c].data = Serialize(chain[c].snapshot)]_vars

\* C23: after addEntity with a position or updateEntityPosition on a tracked
\* id the distance cache holds no entry for that id, neither the meter nor
\* the raw one; after a setPlayerPosition that changes the bucketed observer
\* position the cache is empty.
CachedFor(cache, gameId) == {key \in DOMAIN cache : key.id = gameId}

NoCachedDistanceAfterMove ==
    [][/\ \A gameId \in GameIds, position \in EntityPositions :
            (\/ addEntity(gameId, position)
             \/ HasEntity(entities, gameId)
                   /\ updateEntityPosition(gameId, position))
               => CachedFor(distanceCache', gameId) = {}
       /\ \A position \in ObserverPositions :
            (setPlayerPosition(position)
                /\ lastPlayerPosHash # hashPosition(position))
               => distanceCache' = << >>]_vars

\* ---- spawn packets end to end: S_SPAWN_USER and S_SPAWN_NPC events
\* through onEntitySpawn, processEntitySpawn and addEntity

\* The enhancedEvent of onEntitySpawn(event, entityType).
enhancedEvent(event, entityType, aggressive) ==
    [event EXCEPT
        !.isPlayer = (entityType = "user"),
        !.isNPC = (entityType = "npc" /\ ~aggressive /\ event.relation # 12),
        !.isMonster =
            (entityType = "npc" /\ (aggressive \/ event.relation = 12))]

\* The hooks of S_SPAWN_USER and S_SPAWN_NPC:
\* this.onEntitySpawn(event, 'user') and this.onEntitySpawn(event, 'npc').
hookSpawn(event, entityType, aggressive) ==
    onEntitySpawn(enhancedEvent(event, entityType, aggressive))

TemplateIds == {0, 1000, 9999, 10000}
PlayerIds == {0, 7}
RelationCodes == {JsUndefined, JsNull, 0, 1, 2, 12}
EntityTypes == {"user", "npc"}
SpawnIds == {1, 2}

SpawnEvents(gameId) ==
    {[BlankData(gameId) EXCEPT !.templateId = t, !.playerId = p,
                               !.relation = rel] :
        t \in TemplateIds, p \in PlayerIds, rel \in RelationCodes}

NextSpawn ==
    \/ \E gameId \in SpawnIds, entityType \in EntityTypes,
          aggressive \in BOOLEAN :
          \E event \in SpawnEvents(gameId) :
              hookSpawn(event, entityType, aggressive)
    \/ \E gameId \in SpawnIds : onEntityDespawn(gameId)

SpecSpawn == InitScenario /\ [][NextSpawn]_vars

\* ---- radius changes on a populated store: the radius command between
\* upserts, position updates and removals (radius 100 m doubles gridSize)
RadiusIds == {1, 2}
CommandRadii == {10, 100}

NextRadius ==
    \/ \E gameId \in RadiusIds, position \in EntityPositions :
          updateEntityPosition(gameId, position)
    \/ \E gameId \in RadiusIds, position \in EntityPositions :
          addEntity(gameId, position)
    \/ \E gameId \in RadiusIds : removeEntity(gameId)
    \/ \E newRadius \in CommandRadii : handleRadiusCommand(newRadius)

SpecRadius == InitScenario /\ [][NextRadius]_vars

\* ---- the observer: position updates whose caller looks at the store
\* afterwards, between spawns, queries and clear()
callSetPlayerPosition(position) ==
    /\ setPlayerPositionStep(position)
    /\ ObserveCall("setPlayerPosition", position, JsUndefined)

ObserverIds == {1}

NextObserver ==
    \/ \E gameId \in ObserverIds, position \in StorePositions :
          addEntity(gameId, position)
    \/ \E position \in ObserverPositions : callSetPlayerPosition(position)
    \/ queryEntitiesInRadius
    \/ clear

SpecObserver == InitScenario /\ [][NextObserver]_vars

\* ---- the sweep: cleanupStaleEntities(maxAge) on a store that is queried,
\* so that the entities it removes have cached distances
SweepAges == {0, staleEntityThreshold}

NextSweep ==
    \/ \E gameId \in StoreIds : addEntity(gameId, PosNear)
    \/ \E ms \in ElapseSteps : elapse(ms)
    \/ setPlayerPosition(Origin)
    \/ queryEntitiesInRadius
    \/ \E maxAge \in SweepAges : cleanupStaleEntities(maxAge)

SpecSweep == InitScenario /\ [][NextSweep]_vars

\* C24: setPlayerPosition(pos) with a well-formed pos leaves the observer
\* at pos, and empties the distance cache exactly when the bucket of pos
\* differs from the bucket of the previous observer position.
SetPlayerPositionUpdatesObserver ==
    [][\A position \in ObserverPositions :
          callSetPlayerPosition(position) =>
             /\ playerPosition' = position
             /\ IF lastPlayerPosHash # hashPosition(position)
                   THEN distanceCache' = << >>
                   ELSE distanceCache' = distanceCache]_vars

\* C25: a stored position always has its three components, and an addEntity
\* or updateEntityPosition that carries a malformed position leaves both
\* the recorded position of the entity and the cells it is registered in
\* unchanged.
CellsIn(grid, gameId) ==
    {key \in DOMAIN grid : gameId \in SeqRange(grid[key])}

RecordedPosition(ents, gameId) ==
    IF HasEntity(ents, gameId) /\ GetEntity(ents, gameId).known
        THEN GetEntity(ents, gameId).position
        ELSE NoPosition

MalformedPositionIgnored ==
    [][/\ \A i \in 1..Len(entities') :
            entities'[i].known => IsWellFormed(entities'[i].position)
       /\ \A gameId \in GameIds, position \in MalformedPositions :
            (addEntity(gameId, position)
                \/ updateEntityPosition(gameId, position))
               => /\ RecordedPosition(entities', gameId)
                        = RecordedPosition(entities, gameId)
                  /\ CellsIn(spatialGrid', gameId)
                        = CellsIn(spatialGrid, gameId)]_vars

\* C26: cleanupStaleEntities(maxAge) removes exactly the entities whose
\* lastUpdate precedes now - maxAge: the entities with lastUpdate >= now -
\* maxAge, and only they, are present afterwards, unchanged, and each
\* removed entity is registered in no cell and has no cache entry.
FreshIds(maxAge) ==
    {gameId \in Ids(entities) :
        GetEntity(entities, gameId).lastUpdate >= now - maxAge}

SweepRemovesExactlyStale ==
    [][\A maxAge \in SweepAges :
          cleanupStaleEntities(maxAge) =>
             /\ Ids(entities') = FreshIds(maxAge)
             /\ \A gameId \in FreshIds(maxAge) :
                   GetEntity(entities', gameId) = GetEntity(entities, gameId)
             /\ \A gameId \in Ids(entities) \ FreshIds(maxAge) :
                   /\ CellsIn(spatialGrid', gameId) = {}
                   /\ CachedFor(distanceCache', gameId) = {}]_vars

\* C27: an addEntity of a new id that finds the population at the ceiling
\* evicts least recently updated entities first (no evicted entity was
\* updated later than a retained one) and leaves room for the new entity
\* (the population never exceeds the ceiling); an addEntity of an id that
\* is already tracked evicts nothing.
CeilingEvictsOldest ==
    /\ [](Len(entities) <= maxEntities)
    /\ [][LET evicted == Ids(entities) \ Ids(entities')
              added == Ids(entities') \ Ids(entities)
          IN /\ (Len(entities) >= maxEntities /\ added # {}) =>
                   /\ evicted # {}
                   /\ \A v \in evicted, r \in Ids(entities) \ evicted :
                         LastUpdateOf(v) <= LastUpdateOf(r)
             /\ (Len(entities) < maxEntities \/ added = {}) =>
                   evicted = {}]_vars

\* C27 witness: after an eviction the population is back at the ceiling,
\* and a tracked entity has been upserted there: its update is later than
\* the insertion that filled the store.
UpsertAtCeilingAfterEviction ==
    /\ InsertedIds > maxEntities
    /\ Len(entities) = maxEntities
    /\ \E gameId \in CeilingIds :
          /\ HasEntity(entities, gameId)
          /\ LastUpdateOf(gameId) > LastUpdateOf(InsertedIds)

\* C28: the kind stored for a newly spawned entity follows the precedence
\* from the spawn event to the stored record: playerId, accountId or
\* arrival on the user-spawn packet gives Player; otherwise a templateId in
\* 1000..9999 gives NPC, a templateId >= 10000 Monster, and no signal
\* Monster.  (No spawn of a new id stores another kind than this one.)
ExpectedKind(event, entityType) ==
    IF event.playerId # 0 \/ event.accountId # 0 \/ entityType = "user"
        THEN "Player"
    ELSE IF event.templateId >= 1000 /\ event.templateId <= 9999
        THEN "NPC"
    ELSE "Monster"

SpawnKindFollowsPrecedence ==
    [][\A gameId \in SpawnIds, entityType \in EntityTypes,
          aggressive \in BOOLEAN :
          \A event \in SpawnEvents(gameId) :
              (/\ returned'.op = "onEntitySpawn"
               /\ returned'.value = gameId
               /\ ~HasEntity(entities, gameId)
               /\ HasEntity(entities', gameId)
               /\ GetEntity(entities', gameId).type
                     # ExpectedKind(event, entityType))
                 => ~hookSpawn(event, entityType, aggressive)]_vars

\* C29: the friendly flag of a newly spawned entity is true exactly when
\* its spawn event carried a relation code >= 2; with any other code, a
\* null code or none, the entity is recorded as hostile.  (No spawn of a new
\* id stores another flag than this one.)
SpawnFriendlyIffRelationAtLeastTwo ==
    [][\A gameId \in SpawnIds, entityType \in EntityTypes,
          aggressive \in BOOLEAN :
          \A event \in SpawnEvents(gameId) :
              (/\ returned'.op = "onEntitySpawn"
               /\ returned'.value = gameId
               /\ ~HasEntity(entities, gameId)
               /\ HasEntity(entities', gameId)
               /\ GetEntity(entities', gameId).isFriendly
                     # (IsNumber(event.relation) /\ event.relation >= 2))
                 => ~hookSpawn(event, entityType, aggressive)]_vars

\* C29 witness: two spawns have been recorded, one as friendly and one as
\* hostile.
FriendlyAndHostileSpawned ==
    /\ returned.op = "onEntitySpawn"
    /\ HasEntity(entities, 1) /\ GetEntity(entities, 1).isFriendly
    /\ HasEntity(entities, 2) /\ ~GetEntity(entities, 2).isFriendly

\* C30: getRadarSnapshot is free of side effects: taking a snapshot changes
\* neither the entity map, the spatial index, the distance cache, the
\* observer position nor the performance counters, and touches no file.
SnapshotLeavesStateAlone ==
    [][(/\ returned'.op = "getRadarSnapshot"
        /\ (callModRadarSnapshot \/ callRadarSnapshot))
          => UNCHANGED <<entities, spatialGrid, distanceCache,
                         playerPosition, lastPlayerPosHash, trackerMetrics,
                         wvars>>]_vars

\* C31: at most one periodic update timer exists at any time, whatever the
\* sequence of radar start, radar stop and update-interval changes, and
\* while the pipeline is stopped (from the return of stopPeriodicUpdates to
\* the next start) the data provider is not invoked.
OneTimerSilentWhenStopped ==
    /\ [](Cardinality(liveIntervals) <= 1)
    /\ [](writeTimer = Null => liveIntervals = {})
    /\ [][(reqCount' # reqCount /\ periodicUpdate) => writeTimer # Null]_vars

\* C31 witness: the timer was started, its interval was changed, the
\* provider was invoked, and the timer has been stopped.
StoppedAfterReconfiguredRun ==
    /\ writeTimer = Null
    /\ updateInterval # DefaultUpdateInterval
    /\ reqCount > 0
    /\ Len(entities) > 0

\* C32: clear() resets the store completely: right after it the entity
\* map, the spatial grid and the distance cache are empty, no observer
\* position is held and the remembered observer bucket is reset, as in a
\* freshly constructed store.
ClearResetsStore ==
    [][clear => /\ entities' = <<>>
                /\ spatialGrid' = << >>
                /\ distanceCache' = << >>
                /\ playerPosition' = NoPosition
                /\ lastPlayerPosHash' = NoPosition]_vars

\* C33: setRadarRadius preserves index coherence: whatever radius changes,
\* position updates and removals have taken place, every tracked entity is
\* registered in exactly the cell computed from its position with the
\* current gridSize, and an id that is not tracked is in no cell.
IndexCoherentAcrossRadii ==
    \A gameId \in RadiusIds :
        CellsIn(spatialGrid, gameId) =
            IF HasEntity(entities, gameId) /\ GetEntity(entities, gameId).known
                THEN {getGridKey(GetEntity(entities, gameId).position,
                                 radarRadius)}
                ELSE {}

WithinRadiusOf(position) ==
    {gameId \in Ids(entities) :
        /\ GetEntity(entities, gameId).known
        /\ SquaredDistance(GetEntity(entities, gameId).position, position)
              <= radarRadiusTeraUnits(radarRadius)
                    * radarRadiusTeraUnits(radarRadius)}

SnapshotObserverCoherent ==
    [][SnapshotTaken =>
         LET snapshot == returned'.value
         IN snapshot.player.position # NoPosition =>
              /\ SeqRange(snapshot.entities)
                    = WithinRadiusOf(snapshot.player.position)
              /\ \A gameId \in SeqRange(snapshot.entities) :
                    toOutputDistance(gameId)
                      = SquaredDistance(GetEntity(entities, gameId).position,
                                        snapshot.player.position)]_vars

\* C36: the radius the tracker filters with is the radarRadius of the
\* configuration, after any sequence of `radar radius <n>` and `radar
\* config radarRadius <n>` commands.
TrackerRadiusIsConfigured == radarRadius = config.radarRadius

\* C37: the pipeline never gets stuck: when every file operation eventually
\* completes and every timer eventually fires, the pipeline eventually
\* reaches the idle state and stays there (no write in flight, isWriting
\* false, no retry timer outstanding), and a flush() that was called
\* returns.
PipelineIdle == Quiescent /\ ~isWriting

CountersConserved ==
    PipelineIdle =>
        /\ performanceMetrics.totalWrites =
              performanceMetrics.successfulWrites
                + performanceMetrics.failedWrites
        /\ performanceMetrics.retryOperations
              <= performanceMetrics.failedWrites

\* C39: the two classifiers agree: for every spawn record, the kind stored
\* in the Entity (Entity.determineType applied to the record that
\* processEntitySpawn hands to the tracker) is the kind that
\* DataProcessor.determineEntityType computes for the event, the type field
\* of the processed record.  (No spawn of a new id stores another kind.)
ClassifiersAgree ==
    [][\A gameId \in SpawnIds, entityType \in EntityTypes,
          aggressive \in BOOLEAN :
          \A event \in SpawnEvents(gameId) :
              (/\ returned'.op = "onEntitySpawn"
               /\ returned'.value = gameId
               /\ ~HasEntity(entities, gameId)
               /\ HasEntity(entities', gameId)
               /\ GetEntity(entities', gameId).type
                     # determineEntityType(
                           enhancedEvent(event, entityType, aggressive)))
                 => ~hookSpawn(event, entityType, aggressive)]_vars
====
